---- MODULE Spec2Model ----
(***************************************************************************)
(* A model of janebot's runner pool (sprite-runners.ts), of the request    *)
(* path that uses it (executeInSprite) and of the Slack event handlers     *)
(* with their message debouncer.                                           *)
(*                                                                         *)
(* Node.js runs one task at a time: a handler runs without interruption    *)
(* from one await to the next.  An action of this model is one such run:   *)
(* the code from the point where an awaited call settles up to the next    *)
(* await.  The sandbox provider is outside the program; every call to it   *)
(* may fail, and each action draws the outcome of the call it resumes      *)
(* from.                                                                   *)
(***************************************************************************)
EXTENDS Integers, Sequences, FiniteSets, TLC

\* ------------------------------------------------------------------ bounds
\* Calls of executeInSprite.
NumCallers == 3
\* Provisioning attempts of one slot that the model follows.
MaxAttempt == 2
\* Slack events (mentions and direct messages) that arrive.
NumEvents == 2
\* The debounce delay DEBOUNCE_MS, in ticks of the model's clock.
DebounceTicks == 2
\* The number of lines of an agent output.
MaxLines == 2
\* The number of words of an error message.
MaxWords == 2
\* The default timeout of exec (300000 ms), in ticks of a client call's clock.
ExecTimeoutTicks == 2
\* The time a client call is followed, in ticks.
MaxWait == 3
\* Requests served by the per-thread executor.
MaxRequests == 3
\* The last instant of the session store's clock.
MaxTime == 1
\* The attempts of one slot's provisioning loop that are followed.
MaxSlotAttempt == 7
\* The number of tool records of an agent output.
MaxRecords == 3
\* The frames a connection of exec delivers.
MaxFrames == 2

\* --------------------------------------------------------------- constants
\* initRunners(spritesClient, count = 2)
NumRunners == 2

Slots == 0 .. (NumRunners - 1)
Callers == 1 .. NumCallers

\* Slack threads (channel and thread timestamp) and users of the events.
Threads == {"T1", "T2"}
Users == {"U1", "U2"}
Events == 1 .. NumEvents
\* The text of the n-th event.
Fragments == <<"a", "b", "c", "d", "e", "f">>

VARIABLES
  runners,      \* runners[i]: the Runner record of slot i
  waitQueue,    \* callers blocked in acquireRunner, oldest first
  sandbox,      \* the provider's sandbox under each runner name
  initPc,       \* initRunnerWithRetry of each slot: "try", "backoff", "ready"
  attempt,      \* loop counter of initRunnerWithRetry (0 once it has returned)
  pc,           \* where each caller's executeInSprite stands
  rn,           \* the runner a caller's lockRunner or release closure is on (-1: none)
  viaQueue,     \* the caller's acquireRunner went through the wait queue
  acquired,     \* the caller's acquireRunner returned a runner
  releaseCalls, \* times the caller's request invoked release()
  tryThrew,     \* the try block of the caller's executeInSprite was left by a throw
  leftBehind    \* waiters left in the queue when the caller was taken from it,
                \* while the caller's lockRunner runs

poolVars == <<runners, waitQueue, sandbox, initPc, attempt,
              pc, rn, viaQueue, acquired, releaseCalls, tryThrew, leftBehind>>

VARIABLES
  inFlight,     \* thread keys of the requests in flight (index.ts)
  pending,      \* the debouncer's map: debounce key -> PendingMessage
  ev,           \* thread and user of the event a running handler is for
  hpc,          \* where the handler of each event stands
  prompt,       \* what the handler's `await debounce` returned ("": nothing yet)
  hwin,         \* the window (entry) a running handler's debounce call went to
  nWin,         \* windows opened so far
  calls,        \* debounce calls that went to each window
  delivered,    \* what flush passed to the promises of each window, in order
  execs,        \* runAmp calls made with the text of each window
  sent,         \* the events whose debounce call went to each window, in order
  cancelled     \* the windows dropped by cancel

handlerVars == <<inFlight, pending, ev, hpc, prompt, hwin, nWin, calls, delivered, execs,
                 sent, cancelled>>

VARIABLES
  stdout,        \* the lines the agent's exec wrote to its standard output
  exitCode,      \* the exit code of the agent's exec
  outcome        \* how executeInSprite ended after the exec returned

parseVars == <<stdout, exitCode, outcome>>

VARIABLES
  err,           \* the value a handler's catch block caught
  reply          \* the text formatErrorForUser returned for it ("": not called yet)

errVars == <<err, reply>>

VARIABLES
  call,          \* a call of a SpritesClient method and how the provider treats it
  cpc,           \* where the call stands: idle, waiting, resolved, rejected
  elapsed        \* the time the call has been waiting, in ticks

clientVars == <<call, cpc, elapsed>>

VARIABLES
  sessSprite,    \* thread -> spriteName of the thread's Session ("": none)
  sprites,       \* the names of the sandboxes that exist at the provider
  poolReady,     \* the pre-warmed sandboxes of the pool that are ready
  req,           \* the request executeInSprite (sprite-executor.ts) is serving
  nReq           \* requests started so far

executorVars == <<sessSprite, sprites, poolReady, req, nReq>>

VARIABLES
  store,         \* sessions.ts: the store in memory, { sessions: key -> Session }
  dirty,         \* sessions.ts: dirty
  saveTimers,    \* the number of pending timers armed by scheduleSave
  file,          \* the store file on disk
  now,           \* the clock, in the smallest unit of the timestamps
  op             \* the last operation on the store and what it returned or did

storeVars == <<store, dirty, saveTimers, file, now, op>>

VARIABLES
  slot           \* one slot's initRunnerWithRetry, followed on its own

slotVars == <<slot>>

VARIABLES
  artifacts      \* the tool records of one agent output, the artifact list
                 \* parsed from them and the uploads made from the list

fileVars == <<artifacts>>

VARIABLES
  wsExec         \* one call of SpritesClient.exec: its connection, its timer,
                 \* what it has collected and the promise it returned

execVars == <<wsExec>>

\* The variables of the parts that are modelled on their own.
auxVars == <<errVars, clientVars, executorVars, storeVars, slotVars, fileVars, execVars>>

vars == <<poolVars, handlerVars, parseVars, auxVars>>

\* ------------------------------------------------------------ the provider
\* The sandbox under a runner name.  exists: the provider has one.  ckpt: the
\* id of its checkpoint tagged CLEAN_CHECKPOINT (0: it has none).  dirty: it
\* carries state written by a request.  Checkpoint ids are opaque: the
\* program only stores them and passes them back.
NoSandbox == [exists |-> FALSE, ckpt |-> 0, dirty |-> FALSE]
CleanSandbox(id) == [exists |-> TRUE, ckpt |-> id, dirty |-> FALSE]
PartSandbox == [exists |-> TRUE, ckpt |-> 0, dirty |-> FALSE]

\* What a previous run of the process can have left under a runner name: no
\* sandbox, or a sandbox last used by a request, with or without the clean
\* checkpoint.
LeftOver == {NoSandbox, [CleanSandbox(1) EXCEPT !.dirty = TRUE],
             [PartSandbox EXCEPT !.dirty = TRUE]}

\* The id of a checkpoint created now: an id that differs from the one the
\* runner holds.  Ids are opaque, and the old sandbox and its checkpoints are
\* gone when a new one is built, so two ids are enough to tell the new
\* checkpoint from the one before it.
NewId(old) == IF old = 1 THEN 2 ELSE 1

\* client.delete(name): what the sandbox can be afterwards, with ok = the call
\* returned.  A failed call leaves the sandbox as it was.
DeleteOutcomes(s) ==
  {[ok |-> FALSE, sb |-> s]} \cup
  (IF s.exists THEN {[ok |-> TRUE, sb |-> NoSandbox]} ELSE {})

\* buildRunner(name): create, install, verify, set the policy, checkpoint.
\* create fails on a name that exists; any later step may fail and leaves a
\* sandbox without checkpoint.  ok = the checkpoint id was returned.
BuildOutcomes(s, old) ==
  {[ok |-> FALSE, sb |-> s]} \cup
  (IF ~s.exists
     THEN {[ok |-> FALSE, sb |-> PartSandbox],
           [ok |-> TRUE, sb |-> CleanSandbox(NewId(old))]}
     ELSE {})

\* rebuildRunner(runner): delete, ignoring its failure, then buildRunner.
RebuildOutcomes(s, old) ==
  UNION {BuildOutcomes(d.sb, old) : d \in DeleteOutcomes(s)}

\* client.restoreCheckpoint(name, id) succeeds only on a checkpoint the
\* sandbox has; the sandbox is then as it was when the checkpoint was taken.
CanRestore(s, id) == s.exists /\ s.ckpt # 0 /\ id = s.ckpt

\* healthCheck(name): exec "echo ok"; false when the exec throws.
CanBeHealthy(s) == s.exists

\* What the provider does during one call of initRunner: get answers or
\* throws, listCheckpoints, restoreCheckpoint and delete return or throw, and
\* buildRunner returns, throws in create, or throws in a later step.
InitEnvs ==
  [get : BOOLEAN, list : BOOLEAN, restore : BOOLEAN, delete : BOOLEAN,
   build : {"ok", "create fails", "fails later"}]

\* buildRunner(name) on sandbox s under e; deleted: client.delete ran before.
BuildRunner(s, old, e, deleted) ==
  IF s.exists \/ e.build = "create fails"
    THEN [ok |-> FALSE, sb |-> s, id |-> old,
          reused |-> FALSE, deleted |-> deleted, built |-> FALSE]
  ELSE IF e.build = "fails later"
    THEN [ok |-> FALSE, sb |-> PartSandbox, id |-> old,
          reused |-> FALSE, deleted |-> deleted, built |-> FALSE]
  ELSE [ok |-> TRUE, sb |-> CleanSandbox(NewId(old)), id |-> NewId(old),
        reused |-> FALSE, deleted |-> deleted, built |-> TRUE]

\* An initRunner that takes the clean checkpoint's id without restoring it.
InitRunnerNoRestore(s, old, e) ==
  IF ~e.get
    THEN [ok |-> FALSE, sb |-> s, id |-> old,
          reused |-> FALSE, deleted |-> FALSE, built |-> FALSE]
  ELSE IF s.exists /\ e.list /\ s.ckpt # 0
    THEN [ok |-> TRUE, sb |-> s, id |-> s.ckpt,
          reused |-> TRUE, deleted |-> FALSE, built |-> FALSE]
  ELSE IF s.exists /\ ~e.delete
    THEN [ok |-> FALSE, sb |-> s, id |-> old,
          reused |-> FALSE, deleted |-> FALSE, built |-> FALSE]
  ELSE IF s.exists THEN BuildRunner(NoSandbox, old, e, TRUE)
  ELSE BuildRunner(s, old, e, FALSE)

\* initRunner(runner) on sandbox s under e, the runner's checkpointId being
\* old.  ok: it returned; id: the checkpointId afterwards; reused: it returned
\* after the restore; deleted: client.delete returned; built: buildRunner
\* returned.
InitRunner(s, old, e) ==
  IF ~e.get
    THEN [ok |-> FALSE, sb |-> s, id |-> old,
          reused |-> FALSE, deleted |-> FALSE, built |-> FALSE]
  ELSE IF s.exists /\ e.list /\ s.ckpt # 0 /\ e.restore
    THEN [ok |-> TRUE, sb |-> CleanSandbox(s.ckpt), id |-> s.ckpt,
          reused |-> TRUE, deleted |-> FALSE, built |-> FALSE]
  ELSE IF s.exists /\ ~e.delete
    THEN [ok |-> FALSE, sb |-> s, id |-> old,
          reused |-> FALSE, deleted |-> FALSE, built |-> FALSE]
  ELSE IF s.exists THEN BuildRunner(NoSandbox, old, e, TRUE)
  ELSE BuildRunner(s, old, e, FALSE)

\* initRunner(runner): reuse the sandbox if it exists and its clean checkpoint
\* restores, else delete it and build.  ok = initRunner returned; id = the
\* checkpointId it stored.  These are the results of InitRunner(s, old, e)
\* over the e of InitEnvs, without the fields that name the path taken.
InitOutcomes(s, old) ==
  LET afterDelete == {d \in DeleteOutcomes(s) : d.ok}
      built == UNION {BuildOutcomes(d.sb, old) : d \in afterDelete}
      fresh == BuildOutcomes(s, old)
      viaBuild(bs) == {[ok |-> b.ok, sb |-> b.sb, id |-> IF b.ok THEN b.sb.ckpt ELSE old] : b \in bs}
  IN  {[ok |-> FALSE, sb |-> s, id |-> old]} \cup
      (IF s.exists
         THEN (IF s.ckpt # 0 THEN {[ok |-> TRUE, sb |-> CleanSandbox(s.ckpt), id |-> s.ckpt]} ELSE {})
              \cup viaBuild(built)
         ELSE viaBuild(fresh))

\* ---------------------------------------------------------- the runner pool
\* A find that forgets the lock: (r) => r.ready
FreeRunnersIgnoringLock == {r \in Slots : runners[r].ready}

\* runners.find((r) => r.ready && !r.locked)
FreeRunners == {r \in Slots : runners[r].ready /\ ~runners[r].locked}

FindRunner == CHOOSE r \in FreeRunners : \A s \in FreeRunners : r <= s

\* An acquireRunner without the warm-up check.
NoneReadyUnchecked == FALSE

\* !runners.some((r) => r.ready)
NoneReady == ~\E r \in Slots : runners[r].ready

\* Statistics that count a locked runner as available.
GetRunnerStatsIgnoringLock ==
  [total |-> Cardinality(DOMAIN runners),
   ready |-> Cardinality({r \in DOMAIN runners : runners[r].ready}),
   available |-> Cardinality({r \in DOMAIN runners : runners[r].ready})]

\* getRunnerStats(): three counts over the runners array.
GetRunnerStats ==
  [total |-> Cardinality(DOMAIN runners),
   ready |-> Cardinality({r \in DOMAIN runners : runners[r].ready}),
   available |-> Cardinality({r \in DOMAIN runners : runners[r].ready /\ ~runners[r].locked})]

\* waitQueue.pop(): the newest waiter instead of the oldest.
Pop(q) == [next |-> q[Len(q)], rest |-> SubSeq(q, 1, Len(q) - 1)]

\* waitQueue.shift()
Shift(q) == [next |-> Head(q), rest |-> Tail(q)]

\* const next = waitQueue.shift(); if (next) next(runner): the waiter's
\* callback runs lockRunner(runner) up to its first await, which sets locked.
\* rs, ps, ns, ls: runners, pc, rn and leftBehind after the actor's own step,
\* which left the runner unlocked.
HandToNext(r, rs, ps, ns, ls) ==
  IF waitQueue = <<>>
    THEN /\ runners' = rs
         /\ waitQueue' = waitQueue
         /\ pc' = ps
         /\ rn' = ns
         /\ leftBehind' = ls
    ELSE LET s == Shift(waitQueue) IN
         /\ runners' = [rs EXCEPT ![r].locked = TRUE]
         /\ waitQueue' = s.rest
         /\ pc' = [ps EXCEPT ![s.next] = "probe"]
         /\ rn' = [ns EXCEPT ![s.next] = r]
         /\ leftBehind' = [ls EXCEPT ![s.next] = Len(s.rest)]

\* A provisioning loop that marks the runner ready and leaves the queue alone.
InitSucceedsNoHandOff(r) ==
  /\ initPc[r] = "try"
  /\ \E o \in InitOutcomes(sandbox[r], runners[r].checkpointId) :
       /\ o.ok
       /\ sandbox' = [sandbox EXCEPT ![r] = o.sb]
       /\ runners' = [runners EXCEPT ![r].checkpointId = o.id, ![r].ready = TRUE]
  /\ initPc' = [initPc EXCEPT ![r] = "ready"]
  /\ attempt' = [attempt EXCEPT ![r] = 0]
  /\ UNCHANGED <<waitQueue, pc, rn, viaQueue, acquired, releaseCalls, tryThrew>>
  /\ UNCHANGED <<leftBehind, handlerVars, parseVars, auxVars>>

\* initRunnerWithRetry: one attempt of initRunner.  On success the runner
\* becomes ready and goes to the first waiter; on failure the loop sleeps.
InitSucceeds(r) ==
  /\ initPc[r] = "try"
  /\ \E o \in InitOutcomes(sandbox[r], runners[r].checkpointId) :
       /\ o.ok
       /\ sandbox' = [sandbox EXCEPT ![r] = o.sb]
       /\ HandToNext(r, [runners EXCEPT ![r].checkpointId = o.id, ![r].ready = TRUE], pc, rn, leftBehind)
  /\ initPc' = [initPc EXCEPT ![r] = "ready"]
  /\ attempt' = [attempt EXCEPT ![r] = 0]
  /\ UNCHANGED <<viaQueue, acquired, releaseCalls, tryThrew>>
  /\ UNCHANGED <<handlerVars, parseVars, auxVars>>

\* A provisioning loop that stops at its first failure.
InitGivesUp(r) ==
  /\ initPc[r] = "try"
  /\ attempt[r] < MaxAttempt
  /\ \E o \in InitOutcomes(sandbox[r], runners[r].checkpointId) :
       /\ ~o.ok
       /\ sandbox' = [sandbox EXCEPT ![r] = o.sb]
  /\ initPc' = [initPc EXCEPT ![r] = "failed"]
  /\ UNCHANGED <<runners, waitQueue, attempt,
                 pc, rn, viaQueue, acquired, releaseCalls, tryThrew>>
  /\ UNCHANGED <<leftBehind, handlerVars, parseVars, auxVars>>

InitFails(r) ==
  /\ initPc[r] = "try"
  /\ attempt[r] < MaxAttempt
  /\ \E o \in InitOutcomes(sandbox[r], runners[r].checkpointId) :
       /\ ~o.ok
       /\ sandbox' = [sandbox EXCEPT ![r] = o.sb]
  /\ initPc' = [initPc EXCEPT ![r] = "backoff"]
  /\ UNCHANGED <<runners, waitQueue, attempt,
                 pc, rn, viaQueue, acquired, releaseCalls, tryThrew>>
  /\ UNCHANGED <<leftBehind, handlerVars, parseVars, auxVars>>

\* The backoff timer of initRunnerWithRetry fires: next attempt.
InitRetry(r) ==
  /\ initPc[r] = "backoff"
  /\ initPc' = [initPc EXCEPT ![r] = "try"]
  /\ attempt' = [attempt EXCEPT ![r] = @ + 1]
  /\ UNCHANGED <<runners, waitQueue, sandbox,
                 pc, rn, viaQueue, acquired, releaseCalls, tryThrew>>
  /\ UNCHANGED <<leftBehind, handlerVars, parseVars, auxVars>>

\* ------------------------------------------- one slot's provisioning loop
INIT_RETRY_BASE_MS == 5000
INIT_RETRY_MAX_MS == 120000

Min(a, b) == IF a < b THEN a ELSE b

\* A delay that doubles without a cap.
RetryDelayUncapped(n) == INIT_RETRY_BASE_MS * 2 ^ (n - 1)

\* Math.min(INIT_RETRY_BASE_MS * Math.pow(2, attempt - 1), INIT_RETRY_MAX_MS)
RetryDelayMs(n) == Min(INIT_RETRY_BASE_MS * 2 ^ (n - 1), INIT_RETRY_MAX_MS)

NoInitResult ==
  [ok |-> FALSE, sb |-> NoSandbox, id |-> 0,
   reused |-> FALSE, deleted |-> FALSE, built |-> FALSE]

NoInitEnv ==
  [get |-> TRUE, list |-> TRUE, restore |-> TRUE, delete |-> TRUE, build |-> "ok"]

\* The slot before initRunners: the runner is not ready and has no
\* checkpointId; sb is the sandbox under its name and found the sandbox the
\* last attempt started on; delays lists the sleeps made so far.
NewSlot(s) ==
  [sb |-> s, found |-> s, checkpointId |-> 0, ready |-> FALSE, pc |-> "try",
   attempt |-> 1, delays |-> <<>>, env |-> NoInitEnv, res |-> NoInitResult]

\* One turn of the loop of initRunnerWithRetry: initRunner returns and the
\* runner is ready, or it throws and the loop sleeps for delayMs.
SlotTry(e) ==
  /\ slot.pc = "try"
  /\ LET res == InitRunner(slot.sb, slot.checkpointId, e) IN
       slot' = IF res.ok
                 THEN [slot EXCEPT !.found = slot.sb, !.sb = res.sb,
                                   !.checkpointId = res.id, !.ready = TRUE,
                                   !.pc = "ready", !.env = e, !.res = res]
                 ELSE [slot EXCEPT !.found = slot.sb, !.sb = res.sb, !.pc = "backoff",
                                   !.delays = Append(@, RetryDelayMs(slot.attempt)),
                                   !.env = e, !.res = res]
  /\ UNCHANGED <<poolVars, handlerVars, parseVars, fileVars, execVars, errVars, clientVars, executorVars, storeVars>>

\* The sleep ends: attempt++.
SlotRetry ==
  /\ slot.pc = "backoff"
  /\ slot.attempt < MaxSlotAttempt
  /\ slot' = [slot EXCEPT !.pc = "try", !.attempt = @ + 1]
  /\ UNCHANGED <<poolVars, handlerVars, parseVars, fileVars, execVars, errVars, clientVars, executorVars, storeVars>>

\* ------------------------------------------------------- executeInSprite
\* Caller c is the c-th call of executeInSprite: the calls are numbered in
\* the order in which they are made.
Arrives(c) ==
  /\ pc[c] = "idle"
  /\ IF c = 1 THEN TRUE ELSE pc[c - 1] # "idle"

\* A new request: executeInSprite up to the first await inside acquireRunner.
\* runAmp calls executeInSprite only when config.spritesToken is set, so the
\* token check at its head passes.
\* acquireRunner finds a free runner: lockRunner sets locked and probes.
AcquireFree(c) ==
  /\ Arrives(c)
  /\ FreeRunners # {}
  /\ runners' = [runners EXCEPT ![FindRunner].locked = TRUE]
  /\ rn' = [rn EXCEPT ![c] = FindRunner]
  /\ pc' = [pc EXCEPT ![c] = "probe"]
  /\ UNCHANGED <<waitQueue, sandbox, initPc, attempt,
                 viaQueue, acquired, releaseCalls, tryThrew>>
  /\ UNCHANGED <<leftBehind, handlerVars, parseVars, auxVars>>

\* acquireRunner while no runner is ready: throws.
AcquireWarmingUp(c) ==
  /\ Arrives(c)
  /\ FreeRunners = {}
  /\ NoneReady
  /\ pc' = [pc EXCEPT ![c] = "threw"]
  /\ UNCHANGED <<runners, waitQueue, sandbox, initPc, attempt,
                 rn, viaQueue, acquired, releaseCalls, tryThrew>>
  /\ UNCHANGED <<leftBehind, handlerVars, parseVars, auxVars>>

\* acquireRunner while every ready runner is locked: the caller queues.
AcquireQueue(c) ==
  /\ Arrives(c)
  /\ FreeRunners = {}
  /\ ~NoneReady
  /\ waitQueue' = Append(waitQueue, c)
  /\ pc' = [pc EXCEPT ![c] = "queued"]
  /\ viaQueue' = [viaQueue EXCEPT ![c] = TRUE]
  /\ UNCHANGED <<runners, sandbox, initPc, attempt,
                 rn, acquired, releaseCalls, tryThrew>>
  /\ UNCHANGED <<leftBehind, handlerVars, parseVars, auxVars>>

\* lockRunner: healthCheck returned true; acquireRunner returns the runner
\* and executeInSprite starts the settings write.
ProbeHealthy(c) ==
  /\ pc[c] = "probe"
  /\ CanBeHealthy(sandbox[rn[c]])
  /\ pc' = [pc EXCEPT ![c] = "settings"]
  /\ acquired' = [acquired EXCEPT ![c] = TRUE]
  /\ viaQueue' = [viaQueue EXCEPT ![c] = FALSE]
  /\ UNCHANGED <<runners, waitQueue, sandbox, initPc, attempt,
                 rn, releaseCalls, tryThrew>>
  /\ leftBehind' = [leftBehind EXCEPT ![c] = 0]
  /\ UNCHANGED <<handlerVars, parseVars, auxVars>>

\* lockRunner: healthCheck returned false; rebuildRunner starts.
ProbeUnhealthy(c) ==
  /\ pc[c] = "probe"
  /\ pc' = [pc EXCEPT ![c] = "rebuild"]
  /\ UNCHANGED <<runners, waitQueue, sandbox, initPc, attempt,
                 rn, viaQueue, acquired, releaseCalls, tryThrew>>
  /\ UNCHANGED <<leftBehind, handlerVars, parseVars, auxVars>>

\* A rebuild in lockRunner that does not store the id of the new checkpoint.
LockRebuiltKeepsId(c) ==
  /\ pc[c] = "rebuild"
  /\ \E o \in RebuildOutcomes(sandbox[rn[c]], runners[rn[c]].checkpointId) :
       /\ o.ok
       /\ sandbox' = [sandbox EXCEPT ![rn[c]] = o.sb]
  /\ pc' = [pc EXCEPT ![c] = "settings"]
  /\ acquired' = [acquired EXCEPT ![c] = TRUE]
  /\ viaQueue' = [viaQueue EXCEPT ![c] = FALSE]
  /\ UNCHANGED <<runners, waitQueue, initPc, attempt,
                 rn, releaseCalls, tryThrew>>
  /\ leftBehind' = [leftBehind EXCEPT ![c] = 0]
  /\ UNCHANGED <<handlerVars, parseVars, auxVars>>

\* lockRunner: the rebuild succeeded; acquireRunner returns the runner.
LockRebuilt(c) ==
  /\ pc[c] = "rebuild"
  /\ \E o \in RebuildOutcomes(sandbox[rn[c]], runners[rn[c]].checkpointId) :
       /\ o.ok
       /\ sandbox' = [sandbox EXCEPT ![rn[c]] = o.sb]
       /\ runners' = [runners EXCEPT ![rn[c]].checkpointId = o.sb.ckpt]
  /\ pc' = [pc EXCEPT ![c] = "settings"]
  /\ acquired' = [acquired EXCEPT ![c] = TRUE]
  /\ viaQueue' = [viaQueue EXCEPT ![c] = FALSE]
  /\ UNCHANGED <<waitQueue, initPc, attempt,
                 rn, releaseCalls, tryThrew>>
  /\ leftBehind' = [leftBehind EXCEPT ![c] = 0]
  /\ UNCHANGED <<handlerVars, parseVars, auxVars>>

\* Where a caller is left when lockRunner throws.  A direct caller gets the
\* rejection of `return lockRunner(runner)`.  A queued caller's promise is
\* resolved by `lockRunner(r).then(resolve)` only: it never settles.
AfterLockFailed(c) == IF viaQueue[c] THEN "pending" ELSE "threw"

\* A catch block of lockRunner that unlocks the runner and rethrows without
\* looking at the queue.
LockRebuildFailsNoHandOff(c) ==
  /\ pc[c] = "rebuild"
  /\ \E o \in RebuildOutcomes(sandbox[rn[c]], runners[rn[c]].checkpointId) :
       /\ ~o.ok
       /\ sandbox' = [sandbox EXCEPT ![rn[c]] = o.sb]
  /\ runners' = [runners EXCEPT ![rn[c]].locked = FALSE]
  /\ pc' = [pc EXCEPT ![c] = AfterLockFailed(c)]
  /\ rn' = [rn EXCEPT ![c] = -1]
  /\ leftBehind' = [leftBehind EXCEPT ![c] = 0]
  /\ UNCHANGED <<waitQueue, initPc, attempt,
                 viaQueue, acquired, releaseCalls, tryThrew>>
  /\ UNCHANGED <<handlerVars, parseVars, auxVars>>

\* lockRunner: the rebuild failed; the catch block unlocks the runner, hands
\* it to the next waiter and rethrows.
LockRebuildFails(c) ==
  /\ pc[c] = "rebuild"
  /\ \E o \in RebuildOutcomes(sandbox[rn[c]], runners[rn[c]].checkpointId) :
       /\ ~o.ok
       /\ sandbox' = [sandbox EXCEPT ![rn[c]] = o.sb]
  /\ HandToNext(rn[c], [runners EXCEPT ![rn[c]].locked = FALSE],
                [pc EXCEPT ![c] = AfterLockFailed(c)], [rn EXCEPT ![c] = -1],
                [leftBehind EXCEPT ![c] = 0])
  /\ UNCHANGED <<initPc, attempt,
                 viaQueue, acquired, releaseCalls, tryThrew>>
  /\ UNCHANGED <<handlerVars, parseVars, auxVars>>

\* The try block of executeInSprite is left, by its return or by a throw: the
\* finally block calls release(), which starts the restore.
EnterFinally(c, thrown) ==
  /\ pc' = [pc EXCEPT ![c] = "restore"]
  /\ tryThrew' = [tryThrew EXCEPT ![c] = thrown]
  /\ releaseCalls' = [releaseCalls EXCEPT ![c] = @ + 1]

\* A request's exec in the sandbox leaves its state there.
Used(s) == [s EXCEPT !.dirty = TRUE]

\* The exec that writes the settings file throws.
SettingsFails(c) ==
  /\ pc[c] = "settings"
  /\ sandbox' = [sandbox EXCEPT ![rn[c]] = Used(@)]
  /\ EnterFinally(c, TRUE)
  /\ UNCHANGED <<runners, waitQueue, initPc, attempt, rn, viaQueue, acquired>>
  /\ UNCHANGED <<leftBehind, handlerVars, parseVars, auxVars>>

\* The settings file is written, and AMP_API_KEY is not set: throws.
NoApiKey(c) ==
  /\ pc[c] = "settings"
  /\ sandbox' = [sandbox EXCEPT ![rn[c]] = Used(@)]
  /\ EnterFinally(c, TRUE)
  /\ UNCHANGED <<runners, waitQueue, initPc, attempt, rn, viaQueue, acquired>>
  /\ UNCHANGED <<leftBehind, handlerVars, parseVars, auxVars>>

\* The settings file is written, the key is set: getGitHubToken is awaited.
SettingsWritten(c) ==
  /\ pc[c] = "settings"
  /\ sandbox' = [sandbox EXCEPT ![rn[c]] = Used(@)]
  /\ pc' = [pc EXCEPT ![c] = "github"]
  /\ UNCHANGED <<runners, waitQueue, initPc, attempt, rn, viaQueue, acquired,
                 releaseCalls, tryThrew>>
  /\ UNCHANGED <<leftBehind, handlerVars, parseVars, auxVars>>

\* No GitHub token (getGitHubToken threw or returned none), or the token was
\* minted and `gh auth login` and the git config execs returned: amp starts.
GitHubDone(c) ==
  /\ pc[c] = "github"
  /\ pc' = [pc EXCEPT ![c] = "agent"]
  /\ UNCHANGED <<runners, waitQueue, sandbox, initPc, attempt, rn, viaQueue, acquired,
                 releaseCalls, tryThrew>>
  /\ UNCHANGED <<leftBehind, handlerVars, parseVars, auxVars>>

\* A token was minted and one of the GitHub setup execs throws.
GitHubFails(c) ==
  /\ pc[c] = "github"
  /\ EnterFinally(c, TRUE)
  /\ UNCHANGED <<runners, waitQueue, sandbox, initPc, attempt, rn, viaQueue, acquired>>
  /\ UNCHANGED <<leftBehind, handlerVars, parseVars, auxVars>>

\* An executeInSprite whose release() is at the end of the try block instead
\* of in a finally block: a timeout leaves without it.
AgentTimesOutUnreleased(c) ==
  /\ pc[c] = "agent"
  /\ pc' = [pc EXCEPT ![c] = "done"]
  /\ rn' = [rn EXCEPT ![c] = -1]
  /\ tryThrew' = [tryThrew EXCEPT ![c] = TRUE]
  /\ UNCHANGED <<runners, waitQueue, sandbox, initPc, attempt, viaQueue, acquired,
                 releaseCalls>>
  /\ UNCHANGED <<leftBehind, handlerVars, parseVars, auxVars>>

\* The amp exec throws: it timed out, or the connection failed.
AgentTimesOut(c) ==
  /\ pc[c] = "agent"
  /\ EnterFinally(c, TRUE)
  /\ UNCHANGED <<runners, waitQueue, sandbox, initPc, attempt, rn, viaQueue, acquired>>
  /\ UNCHANGED <<leftBehind, handlerVars, parseVars, auxVars>>

\* The amp exec returned and parseAmpOutput throws the agent's error.
AgentError(c) ==
  /\ pc[c] = "agent"
  /\ EnterFinally(c, TRUE)
  /\ UNCHANGED <<runners, waitQueue, sandbox, initPc, attempt, rn, viaQueue, acquired>>
  /\ UNCHANGED <<leftBehind, handlerVars, parseVars, auxVars>>

\* The amp exec returned and parseAmpOutput returned: the result is returned.
AgentDone(c) ==
  /\ pc[c] = "agent"
  /\ EnterFinally(c, FALSE)
  /\ UNCHANGED <<runners, waitQueue, sandbox, initPc, attempt, rn, viaQueue, acquired>>
  /\ UNCHANGED <<leftBehind, handlerVars, parseVars, auxVars>>

\* release(): restoreCheckpoint returned; the runner is unlocked and goes to
\* the first waiter; executeInSprite returns or rethrows.
RestoreDone(c) ==
  /\ pc[c] = "restore"
  /\ CanRestore(sandbox[rn[c]], runners[rn[c]].checkpointId)
  /\ sandbox' = [sandbox EXCEPT ![rn[c]] = CleanSandbox(@.ckpt)]
  /\ HandToNext(rn[c], [runners EXCEPT ![rn[c]].locked = FALSE],
                [pc EXCEPT ![c] = "done"], [rn EXCEPT ![c] = -1], leftBehind)
  /\ UNCHANGED <<initPc, attempt, viaQueue, acquired, releaseCalls, tryThrew>>
  /\ UNCHANGED <<handlerVars, parseVars, auxVars>>

\* A release() that ignores the failed restore: it unlocks the runner and
\* hands it on as it is.
RestoreFailsIgnored(c) ==
  /\ pc[c] = "restore"
  /\ HandToNext(rn[c], [runners EXCEPT ![rn[c]].locked = FALSE],
                [pc EXCEPT ![c] = "done"], [rn EXCEPT ![c] = -1], leftBehind)
  /\ UNCHANGED <<sandbox, initPc, attempt, viaQueue, acquired, releaseCalls, tryThrew>>
  /\ UNCHANGED <<handlerVars, parseVars, auxVars>>

\* release(): restoreCheckpoint threw; rebuildRunner starts.
RestoreFails(c) ==
  /\ pc[c] = "restore"
  /\ pc' = [pc EXCEPT ![c] = "relrebuild"]
  /\ UNCHANGED <<runners, waitQueue, sandbox, initPc, attempt, rn, viaQueue, acquired,
                 releaseCalls, tryThrew>>
  /\ UNCHANGED <<leftBehind, handlerVars, parseVars, auxVars>>

\* release(): the rebuild succeeded; unlock and hand over as above.
ReleaseRebuilt(c) ==
  /\ pc[c] = "relrebuild"
  /\ \E o \in RebuildOutcomes(sandbox[rn[c]], runners[rn[c]].checkpointId) :
       /\ o.ok
       /\ sandbox' = [sandbox EXCEPT ![rn[c]] = o.sb]
       /\ HandToNext(rn[c], [runners EXCEPT ![rn[c]].checkpointId = o.sb.ckpt,
                                            ![rn[c]].locked = FALSE],
                     [pc EXCEPT ![c] = "done"], [rn EXCEPT ![c] = -1], leftBehind)
  /\ UNCHANGED <<initPc, attempt, viaQueue, acquired, releaseCalls, tryThrew>>
  /\ UNCHANGED <<handlerVars, parseVars, auxVars>>

\* release(): the rebuild threw too.  `await rebuildRunner(runner)` rejects,
\* so release() ends there: the lines that unlock the runner and serve the
\* wait queue are not reached, and executeInSprite throws this error.
ReleaseRebuildFails(c) ==
  /\ pc[c] = "relrebuild"
  /\ \E o \in RebuildOutcomes(sandbox[rn[c]], runners[rn[c]].checkpointId) :
       /\ ~o.ok
       /\ sandbox' = [sandbox EXCEPT ![rn[c]] = o.sb]
  /\ pc' = [pc EXCEPT ![c] = "done"]
  /\ rn' = [rn EXCEPT ![c] = -1]
  /\ UNCHANGED <<runners, waitQueue, initPc, attempt, viaQueue, acquired, releaseCalls, tryThrew>>
  /\ UNCHANGED <<leftBehind, handlerVars, parseVars, auxVars>>

\* ------------------------------------------------------ the agent's output
\* A line of the agent's output: json says whether JSON.parse accepts it; the
\* other fields are those parseAmpOutput reads from the record, with "" for
\* a field that is absent or empty.
Line(json, type, subtype, result, isError, error, session) ==
  [json |-> json, type |-> type, subtype |-> subtype, result |-> result,
   is_error |-> isError, error |-> error, session_id |-> session]

Lines ==
  {Line(FALSE, "result", "success", "cut off", TRUE, "cut off", "T-9"),
   Line(TRUE, "system", "init", "", FALSE, "", "T-1"),
   Line(TRUE, "assistant", "", "", FALSE, "", "T-2"),
   Line(TRUE, "result", "success", "answer", FALSE, "", "T-1"),
   Line(TRUE, "result", "success", "second answer", FALSE, "", "T-2"),
   Line(TRUE, "result", "success", "", FALSE, "", ""),
   Line(TRUE, "result", "error_during_execution", "", TRUE, "agent failed", "T-2"),
   Line(TRUE, "result", "error_during_execution", "", TRUE, "rate limit", ""),
   Line(TRUE, "result", "error_during_execution", "", TRUE, "", "")}

Outputs == UNION {[1 .. n -> Lines] : n \in 0 .. MaxLines}

\* exec resolves with the exit code of the command, zero or not.
ExitCodes == {0, 1}

\* The loop of parseAmpOutput over the lines, from the first to the last.
RECURSIVE ParseLines(_, _)
ParseLines(ls, acc) ==
  IF ls = <<>> THEN acc
  ELSE LET msg == Head(ls)
           threadId == IF msg.json /\ msg.session_id # "" THEN msg.session_id ELSE acc.threadId
           isResult == msg.json /\ msg.type = "result"
           success == isResult /\ msg.subtype = "success" /\ msg.result # ""
           failure == isResult /\ ~success /\ msg.is_error /\ msg.error # ""
       IN  ParseLines(Tail(ls),
                      [threadId |-> threadId,
                       content |-> IF success THEN msg.result ELSE acc.content,
                       errorMsg |-> IF failure THEN msg.error ELSE acc.errorMsg])

\* A parseAmpOutput that throws on an error record even when there is content.
ParseAmpOutputErrorFirst(out) ==
  LET p == ParseLines(out, [threadId |-> "", content |-> "", errorMsg |-> ""])
  IN  IF p.errorMsg # ""
        THEN [threw |-> TRUE, error |-> p.errorMsg, threadId |-> "", content |-> ""]
        ELSE [threw |-> FALSE, error |-> "", threadId |-> p.threadId, content |-> p.content]

\* parseAmpOutput(stdout): throws the error message when there is one and no
\* content, else returns the thread id and the content.
ParseAmpOutput(out) ==
  LET p == ParseLines(out, [threadId |-> "", content |-> "", errorMsg |-> ""])
  IN  IF p.errorMsg # "" /\ p.content = ""
        THEN [threw |-> TRUE, error |-> p.errorMsg, threadId |-> "", content |-> ""]
        ELSE [threw |-> FALSE, error |-> "", threadId |-> p.threadId, content |-> p.content]

NoOutcome == [status |-> "none", error |-> "", threadId |-> "", content |-> ""]

\* executeInSprite after the agent's exec returned: parseAmpOutput throws.
ExecThrows ==
  /\ outcome = NoOutcome
  /\ ParseAmpOutput(stdout).threw
  /\ outcome' = [status |-> "error", error |-> ParseAmpOutput(stdout).error,
                 threadId |-> "", content |-> ""]
  /\ UNCHANGED <<stdout, exitCode>>
  /\ UNCHANGED <<poolVars, handlerVars, auxVars>>

\* executeInSprite after the agent's exec returned: the result is returned,
\* with content || "Done.".
ExecReturns ==
  /\ outcome = NoOutcome
  /\ ~ParseAmpOutput(stdout).threw
  /\ LET p == ParseAmpOutput(stdout) IN
       outcome' = [status |-> "ok", error |-> "", threadId |-> p.threadId,
                   content |-> IF p.content = "" THEN "Done." ELSE p.content]
  /\ UNCHANGED <<stdout, exitCode>>
  /\ UNCHANGED <<poolVars, handlerVars, auxVars>>

\* ------------------------------------------------- SpritesClient.exec
\* The promise of exec: pending, fulfilled with { stdout, stderr, exitCode },
\* or rejected with an Error.
PendingPromise ==
  [state |-> "pending", stdout |-> <<>>, stderr |-> <<>>, exitCode |-> 0, reason |-> ""]

\* resolve(value) and reject(reason) of a promise: the first call settles it
\* and the later ones do nothing.
Settle(promise, settlement) == IF promise.state = "pending" THEN settlement ELSE promise

NoExecEvent == [kind |-> "none", stdout |-> <<>>, stderr |-> <<>>, exitCode |-> 0]

\* exec up to the return of the promise: nothing collected, resolved false,
\* the timer armed, the connection being opened.  first is the first of the
\* events timeout, close and error, with what had been collected then.
NewExec ==
  [stdout |-> <<>>, stderr |-> <<>>, exitCode |-> 0, resolved |-> FALSE,
   timer |-> "armed", closing |-> FALSE, closed |-> FALSE, errored |-> FALSE,
   promise |-> PendingPromise, first |-> NoExecEvent]

ExecEvent(kind) ==
  IF wsExec.first.kind = "none"
    THEN [kind |-> kind, stdout |-> wsExec.stdout, stderr |-> wsExec.stderr,
          exitCode |-> wsExec.exitCode]
    ELSE wsExec.first

\* ws.on("message") with a binary frame of stream 1 or 2.
ExecOutput(stream) ==
  /\ ~wsExec.closed
  /\ Len(wsExec.stdout) + Len(wsExec.stderr) < MaxFrames
  /\ wsExec' = IF stream = 1 THEN [wsExec EXCEPT !.stdout = Append(@, "out")]
                               ELSE [wsExec EXCEPT !.stderr = Append(@, "err")]
  /\ UNCHANGED <<poolVars, handlerVars, parseVars, slotVars, fileVars, errVars, clientVars, executorVars, storeVars>>

\* ws.on("message") with the exit message.
ExecExit(code) ==
  /\ ~wsExec.closed
  /\ wsExec.exitCode # code
  /\ wsExec' = [wsExec EXCEPT !.exitCode = code]
  /\ UNCHANGED <<poolVars, handlerVars, parseVars, slotVars, fileVars, errVars, clientVars, executorVars, storeVars>>

\* A timer callback that hands back what was collected.
ExecTimerResolves ==
  /\ wsExec.timer = "armed"
  /\ wsExec' =
       IF ~wsExec.resolved
         THEN [wsExec EXCEPT !.timer = "fired", !.resolved = TRUE, !.closing = TRUE,
                             !.first = ExecEvent("timeout"),
                             !.promise = Settle(@, [state |-> "fulfilled",
                                                    stdout |-> wsExec.stdout,
                                                    stderr |-> wsExec.stderr,
                                                    exitCode |-> wsExec.exitCode,
                                                    reason |-> ""])]
         ELSE [wsExec EXCEPT !.timer = "fired", !.first = ExecEvent("timeout")]
  /\ UNCHANGED <<poolVars, handlerVars, parseVars, slotVars, fileVars, errVars, clientVars, executorVars, storeVars>>

\* The timer fires: unless resolved, ws.close() and reject with the timeout
\* error.
ExecTimerFires ==
  /\ wsExec.timer = "armed"
  /\ wsExec' =
       IF ~wsExec.resolved
         THEN [wsExec EXCEPT !.timer = "fired", !.resolved = TRUE, !.closing = TRUE,
                             !.first = ExecEvent("timeout"),
                             !.promise = Settle(@, [state |-> "rejected", stdout |-> <<>>,
                                                    stderr |-> <<>>, exitCode |-> 0,
                                                    reason |-> "Sprites exec timeout"])]
         ELSE [wsExec EXCEPT !.timer = "fired", !.first = ExecEvent("timeout")]
  /\ UNCHANGED <<poolVars, handlerVars, parseVars, slotVars, fileVars, errVars, clientVars, executorVars, storeVars>>

\* ws.on("close"): unless resolved, clearTimeout and resolve with what was
\* collected.
ExecClose ==
  /\ ~wsExec.closed
  /\ wsExec' =
       IF ~wsExec.resolved
         THEN [wsExec EXCEPT !.closed = TRUE, !.resolved = TRUE, !.timer = "cleared",
                             !.first = ExecEvent("close"),
                             !.promise = Settle(@, [state |-> "fulfilled",
                                                    stdout |-> wsExec.stdout,
                                                    stderr |-> wsExec.stderr,
                                                    exitCode |-> wsExec.exitCode,
                                                    reason |-> ""])]
         ELSE [wsExec EXCEPT !.closed = TRUE, !.first = ExecEvent("close")]
  /\ UNCHANGED <<poolVars, handlerVars, parseVars, slotVars, fileVars, errVars, clientVars, executorVars, storeVars>>

\* ws.on("error"): unless resolved, clearTimeout and reject.
ExecError ==
  /\ ~wsExec.errored
  /\ wsExec' =
       IF ~wsExec.resolved
         THEN [wsExec EXCEPT !.errored = TRUE, !.resolved = TRUE, !.timer = "cleared",
                             !.first = ExecEvent("error"),
                             !.promise = Settle(@, [state |-> "rejected", stdout |-> <<>>,
                                                    stderr |-> <<>>, exitCode |-> 0,
                                                    reason |-> "Sprites WebSocket error"])]
         ELSE [wsExec EXCEPT !.errored = TRUE, !.first = ExecEvent("error")]
  /\ UNCHANGED <<poolVars, handlerVars, parseVars, slotVars, fileVars, errVars, clientVars, executorVars, storeVars>>

\* ------------------------------------------------- the generated files
\* A path is a sequence of parts, of which the first may be the scheme.
FilePaths == {<<"/tmp/a.png">>, <<"file://", "/tmp/a.png">>, <<"/tmp/b.png">>}

\* The data field of an image item: none or empty, text that is no base64,
\* or the base64 text of some bytes.
ImageData == {"", "!!", "QUJD", "REVG"}

\* The blocks that the loops of parseAmpOutput look at: a tool_use block of an
\* assistant record, with the tool's name and input.savePath, and an image
\* item of a tool_result block of a user record, with savedPath and data.
ToolRecords ==
  {[kind |-> "tool_use", name |-> n, path |-> p, data |-> ""] :
     n \in {"painter"}, p \in FilePaths}
    \cup {[kind |-> "tool_use", name |-> "Read", path |-> <<"/tmp/b.png">>, data |-> ""]}
    \cup {[kind |-> "tool_result", name |-> "", path |-> p, data |-> d] :
            p \in FilePaths, d \in ImageData}

RecordSeqs == UNION {[1 .. n -> ToolRecords] : n \in 0 .. MaxRecords}

\* String(path).replace(/^file:\/\//, "")
StripScheme(path) == IF Head(path) = "file://" THEN Tail(path)[1] ELSE path[1]

\* filePath.split("/").pop()
Filename(filePath) ==
  CASE filePath = "/tmp/a.png" -> "a.png"
    [] filePath = "/tmp/b.png" -> "b.png"
    [] OTHER -> "generated-image.png"

\* A file entry without data.
NoBuffer == "(undefined)"

\* Buffer.from(data, "base64"): the bytes; text that is no base64 gives an
\* empty buffer, which is still an object.
FromBase64(d) ==
  CASE d = "QUJD" -> "ABC"
    [] d = "REVG" -> "DEF"
    [] OTHER -> ""

\* imageData: undefined unless item.data is a non-empty string.
ImageBuffer(d) == IF d # "" THEN FromBase64(d) ELSE NoBuffer

IndexOfPath(files, filePath) ==
  IF \E i \in DOMAIN files : files[i].path = filePath
    THEN CHOOSE i \in DOMAIN files :
           files[i].path = filePath /\ \A j \in DOMAIN files : files[j].path = filePath => i <= j
    ELSE 0

\* A parse in which a later payload replaces the one an entry has.
RECURSIVE GeneratedFilesLastPayload(_, _)
GeneratedFilesLastPayload(records, files) ==
  IF records = <<>> THEN files
  ELSE LET r == Head(records)
           filePath == StripScheme(r.path)
           i == IndexOfPath(files, filePath)
           imageData == ImageBuffer(r.data)
           next ==
             IF r.kind = "tool_use"
               THEN IF r.name = "painter" /\ i = 0
                      THEN Append(files, [path |-> filePath, filename |-> Filename(filePath),
                                          data |-> NoBuffer])
                      ELSE files
             ELSE IF i # 0
               THEN IF imageData # NoBuffer
                      THEN [files EXCEPT ![i].data = imageData]
                      ELSE files
             ELSE Append(files, [path |-> filePath, filename |-> Filename(filePath),
                                 data |-> imageData])
       IN  GeneratedFilesLastPayload(Tail(records), next)

\* The two loops of parseAmpOutput that fill generatedFiles, over the records
\* in the order of the output.
RECURSIVE GeneratedFiles(_, _)
GeneratedFiles(records, files) ==
  IF records = <<>> THEN files
  ELSE LET r == Head(records)
           filePath == StripScheme(r.path)
           i == IndexOfPath(files, filePath)
           imageData == ImageBuffer(r.data)
           next ==
             IF r.kind = "tool_use"
               THEN IF r.name = "painter" /\ i = 0
                      THEN Append(files, [path |-> filePath, filename |-> Filename(filePath),
                                          data |-> NoBuffer])
                      ELSE files
             ELSE IF i # 0
               THEN IF imageData # NoBuffer /\ files[i].data = NoBuffer
                      THEN [files EXCEPT ![i].data = imageData]
                      ELSE files
             ELSE Append(files, [path |-> filePath, filename |-> Filename(filePath),
                                 data |-> imageData])
       IN  GeneratedFiles(Tail(records), next)

\* What downloadFile reads in the sandbox.
SandboxBytes == "bytes in the sandbox"

\* parseAmpOutput returns the list for the records of the output.
ParseFiles ==
  /\ artifacts.pc = "parse"
  /\ artifacts' = [artifacts EXCEPT !.pc = "upload",
                                    !.files = GeneratedFiles(artifacts.records, <<>>)]
  /\ UNCHANGED <<poolVars, handlerVars, parseVars, slotVars, execVars, errVars, clientVars, executorVars, storeVars>>

\* One turn of the loop of uploadGeneratedFiles, which has a SpritesClient:
\* the entry's data when it has some, else the download; then the upload.
UploadFile ==
  /\ artifacts.pc = "upload"
  /\ Len(artifacts.uploads) < Len(artifacts.files)
  /\ LET f == artifacts.files[Len(artifacts.uploads) + 1] IN
       artifacts' = [artifacts EXCEPT !.uploads =
                       Append(@, IF f.data # NoBuffer
                                   THEN [filename |-> f.filename, from |-> "data",
                                         file |-> f.data]
                                   ELSE [filename |-> f.filename, from |-> "sandbox",
                                         file |-> SandboxBytes])]
  /\ UNCHANGED <<poolVars, handlerVars, parseVars, slotVars, execVars, errVars, clientVars, executorVars, storeVars>>

\* ------------------------------------------------------ formatErrorForUser
\* An error message is a sequence of words: the eight phrases that
\* formatErrorForUser looks for, and words of no category.
Markers == {"No API key", "login flow", "invalid_auth", "token",
            "rate limit", "too many", "timeout", "timed out"}
Words == Markers \cup {"ECONNRESET", "/home/jane/.env"}
Messages == UNION {[1 .. n -> Words] : n \in 0 .. MaxWords}

\* What a catch block can catch: an Error with a message, a string, or an
\* object that is no Error.
Thrown ==
  {[kind |-> k, text |-> t] : k \in {"Error", "string"}, t \in Messages}
    \cup {[kind |-> "object", text |-> <<>>]}

\* error instanceof Error ? error.message : String(error)
MessageOf(e) == IF e.kind = "object" THEN <<"[object Object]">> ELSE e.text

\* message.includes(phrase)
Includes(message, phrase) == \E i \in DOMAIN message : message[i] = phrase

\* A formatErrorForUser whose fallback shows the start of the raw message.
FormatErrorRaw(e) ==
  LET message == MessageOf(e) IN
  IF Includes(message, "No API key") \/ Includes(message, "login flow")
    THEN "I'm not configured properly. Please check the AMP_API_KEY."
  ELSE IF Includes(message, "invalid_auth") \/ Includes(message, "token")
    THEN "Authentication failed. Please check the bot configuration."
  ELSE IF Includes(message, "rate limit") \/ Includes(message, "too many")
    THEN "I'm being rate limited. Please try again in a moment."
  ELSE IF Includes(message, "timeout") \/ Includes(message, "timed out")
    THEN "The request timed out. Try a simpler task or try again."
  ELSE IF message = <<>> THEN "Something went wrong. Please try again."
  ELSE "Something went wrong: " \o message[1]

FormatErrorForUser(e) ==
  LET message == MessageOf(e) IN
  IF Includes(message, "No API key") \/ Includes(message, "login flow")
    THEN "I'm not configured properly. Please check the AMP_API_KEY."
  ELSE IF Includes(message, "invalid_auth") \/ Includes(message, "token")
    THEN "Authentication failed. Please check the bot configuration."
  ELSE IF Includes(message, "rate limit") \/ Includes(message, "too many")
    THEN "I'm being rate limited. Please try again in a moment."
  ELSE IF Includes(message, "timeout") \/ Includes(message, "timed out")
    THEN "The request timed out. Try a simpler task or try again."
  ELSE "Something went wrong. Please try again."

\* The catch block of a handler: say({text: formatErrorForUser(error)}).
SayError ==
  /\ reply = ""
  /\ reply' = FormatErrorForUser(err)
  /\ UNCHANGED err
  /\ UNCHANGED <<poolVars, handlerVars, parseVars, slotVars, fileVars, execVars, clientVars, executorVars, storeVars>>

\* ------------------------------------------------------------ SpritesClient
\* The methods of the client.  exec speaks over a WebSocket; the others make
\* one fetch, through request() or, for the checkpoints, on their own.
Methods == {"get", "create", "delete", "exec", "setNetworkPolicy",
            "createCheckpoint", "listCheckpoints", "restoreCheckpoint", "list"}

\* What the provider does with a call: answers, answers with an error, or
\* never answers.
ProviderDoes == {"ok", "error", "hangs"}

\* options.timeoutMs of exec, in ticks; 0 stands for "not given".  The other
\* methods take no timeout.
TimeoutOptions(m) == IF m = "exec" THEN {0, 1} ELSE {0}

ClientCalls ==
  {[method |-> m, timeoutMs |-> t, provider |-> p] :
     m \in Methods, t \in {0, 1}, p \in ProviderDoes}

\* The time after which the client itself ends the call, or -1 when it sets
\* no timer: exec arms setTimeout(options.timeoutMs ?? 300000); request(),
\* createCheckpoint and restoreCheckpoint await fetch without a signal.
Deadline(c) ==
  IF c.method = "exec"
    THEN (IF c.timeoutMs = 0 THEN ExecTimeoutTicks ELSE c.timeoutMs)
    ELSE -1

\* The call is made.
CallStarts ==
  /\ cpc = "idle"
  /\ cpc' = "waiting"
  /\ UNCHANGED <<call, elapsed>>
  /\ UNCHANGED <<poolVars, handlerVars, parseVars, slotVars, fileVars, execVars, errVars, executorVars, storeVars>>

\* Time passes while the call waits; a timer that is due fires first.
CallWaits ==
  /\ cpc = "waiting"
  /\ elapsed < MaxWait
  /\ elapsed # Deadline(call)
  /\ elapsed' = elapsed + 1
  /\ UNCHANGED <<call, cpc>>
  /\ UNCHANGED <<poolVars, handlerVars, parseVars, slotVars, fileVars, execVars, errVars, executorVars, storeVars>>

\* exec's timer fires: the socket is closed and the promise rejected.
CallTimesOut ==
  /\ cpc = "waiting"
  /\ elapsed = Deadline(call)
  /\ cpc' = "rejected"
  /\ UNCHANGED <<call, elapsed>>
  /\ UNCHANGED <<poolVars, handlerVars, parseVars, slotVars, fileVars, execVars, errVars, executorVars, storeVars>>

\* The provider answers: the promise resolves.
CallResolves ==
  /\ cpc = "waiting"
  /\ call.provider = "ok"
  /\ cpc' = "resolved"
  /\ UNCHANGED <<call, elapsed>>
  /\ UNCHANGED <<poolVars, handlerVars, parseVars, slotVars, fileVars, execVars, errVars, executorVars, storeVars>>

\* The provider answers with an error, or the connection fails: the promise
\* rejects.
CallRejects ==
  /\ cpc = "waiting"
  /\ call.provider = "error"
  /\ cpc' = "rejected"
  /\ UNCHANGED <<call, elapsed>>
  /\ UNCHANGED <<poolVars, handlerVars, parseVars, slotVars, fileVars, execVars, errVars, executorVars, storeVars>>

\* ------------------------------------------- executeInSprite, one per thread
\* SpritesClient.getSpriteName(channelId, threadTs): a name fixed by the thread.
GetSpriteName(t) == "jane-" \o t

PoolSprites == {"jane-pool-1"}
SpriteNames == {GetSpriteName(t) : t \in Threads} \cup PoolSprites

NoRequest == [pc |-> "idle", thread |-> "", sprite |-> "", stale |-> FALSE]

\* executeInSprite up to the health check: the sandbox of the thread's
\* Session if it names one (client.get's answer is only logged), else a
\* sandbox claimed from the pool, else getOrCreate under the thread's name.
\* stale records that the Session named a sandbox the provider does not have.
ExecStarts(t) ==
  /\ req.pc \in {"idle", "done", "failed"}
  /\ nReq < MaxRequests
  /\ nReq' = nReq + 1
  /\ IF sessSprite[t] # ""
       THEN /\ req' = [pc |-> "health", thread |-> t, sprite |-> sessSprite[t],
                       stale |-> sessSprite[t] \notin sprites]
            /\ UNCHANGED <<sprites, poolReady>>
       ELSE IF poolReady # {}
         THEN \E n \in poolReady :
                /\ req' = [pc |-> "health", thread |-> t, sprite |-> n, stale |-> FALSE]
                /\ poolReady' = poolReady \ {n}
                /\ UNCHANGED sprites
         ELSE /\ req' = [pc |-> "health", thread |-> t, sprite |-> GetSpriteName(t),
                         stale |-> FALSE]
              /\ sprites' = sprites \cup {GetSpriteName(t)}
              /\ UNCHANGED poolReady
  /\ UNCHANGED sessSprite
  /\ UNCHANGED <<poolVars, handlerVars, parseVars, slotVars, fileVars, execVars, errVars, clientVars, storeVars>>

\* pool.healthCheck returned true: `echo ok` ran in the sandbox.
HealthOk ==
  /\ req.pc = "health"
  /\ req.sprite \in sprites
  /\ req' = [req EXCEPT !.pc = "run"]
  /\ UNCHANGED <<sessSprite, sprites, poolReady, nReq>>
  /\ UNCHANGED <<poolVars, handlerVars, parseVars, slotVars, fileVars, execVars, errVars, clientVars, storeVars>>

\* pool.healthCheck returned false (the exec threw, as it does on a sandbox
\* that does not exist, or did not print ok): executeInSprite throws.
HealthFails ==
  /\ req.pc = "health"
  /\ req' = [req EXCEPT !.pc = "failed"]
  /\ UNCHANGED <<sessSprite, sprites, poolReady, nReq>>
  /\ UNCHANGED <<poolVars, handlerVars, parseVars, slotVars, fileVars, execVars, errVars, clientVars, storeVars>>

\* The agent ran and reported a thread id: sessions.set stores the sandbox
\* name, and executeInSprite returns.
ExecDone ==
  /\ req.pc = "run"
  /\ sessSprite' = [sessSprite EXCEPT ![req.thread] = req.sprite]
  /\ req' = [req EXCEPT !.pc = "done"]
  /\ UNCHANGED <<sprites, poolReady, nReq>>
  /\ UNCHANGED <<poolVars, handlerVars, parseVars, slotVars, fileVars, execVars, errVars, clientVars, storeVars>>

\* The agent's exec or the parse of its output throws, or no thread id was
\* reported: no Session is stored.
ExecEndsWithoutSession(ok) ==
  /\ req.pc = "run"
  /\ req' = [req EXCEPT !.pc = IF ok THEN "done" ELSE "failed"]
  /\ UNCHANGED <<sessSprite, sprites, poolReady, nReq>>
  /\ UNCHANGED <<poolVars, handlerVars, parseVars, slotVars, fileVars, execVars, errVars, clientVars, storeVars>>

\* A sandbox disappears at the provider while no request uses it:
\* SpritesClient.cleanup deletes the sandboxes not updated for maxAgeDays.
SpriteDeleted(n) ==
  /\ n \in sprites
  /\ req.pc \notin {"health", "run"}
  /\ sprites' = sprites \ {n}
  /\ UNCHANGED <<sessSprite, poolReady, req, nReq>>
  /\ UNCHANGED <<poolVars, handlerVars, parseVars, slotVars, fileVars, execVars, errVars, clientVars, storeVars>>

\* --------------------------------------------------------- the session store
SessionKeys == {"C1:1.0", "C1:2.0"}
AmpThreadIds == {"T-1", "T-2"}
\* A field that is undefined in memory, and absent from the JSON text.
Absent == "(absent)"
SpriteNameArgs == {Absent, "jane-1"}
\* The calls of set that are made: a first and a later one on one thread, with
\* and without a sandbox name, and one on another thread.
SetArgs == {<<"C1:1.0", "T-1", Absent>>, <<"C1:1.0", "T-2", "jane-1">>,
            <<"C1:2.0", "T-1", "jane-1">>}
ContextTs == {"3.0"}
Times == 0 .. MaxTime
\* maxAgeDays of cleanup, in units of the clock.
MaxAges == {0, 1}

OptionalFields == {"spriteName", "lastSlackContextTs"}

\* A JSON text that leaves out lastSlackContextTs.
StringifyWithoutContext(st) ==
  [kind |-> "mapping",
   sessions |-> [k \in DOMAIN st.sessions |->
                   LET ses == st.sessions[k]
                       defined == {f \in DOMAIN ses \ {"lastSlackContextTs"} :
                                     f \notin OptionalFields \/ ses[f] # Absent}
                   IN  [f \in defined |-> ses[f]]]]

\* JSON.stringify(store, null, 2): the text holds, for each key, the fields of
\* the Session that are defined; an undefined field is left out.
Stringify(st) ==
  [kind |-> "mapping",
   sessions |-> [k \in DOMAIN st.sessions |->
                   LET ses == st.sessions[k]
                       defined == {f \in DOMAIN ses : f \notin OptionalFields \/ ses[f] # Absent}
                   IN  [f \in defined |-> ses[f]]]]

\* JSON.parse of a text written by save: a Session whose optional fields read
\* as undefined where the text has none.
ParseSessions(doc) ==
  [sessions |-> [k \in DOMAIN doc.sessions |->
                   LET rec == doc.sessions[k] IN
                   [f \in DOMAIN rec \cup OptionalFields |->
                      IF f \in DOMAIN rec THEN rec[f] ELSE Absent]]]

EmptyStore == [sessions |-> <<>>]
NoFile == [kind |-> "missing", sessions |-> <<>>]

\* What a store file can be: missing, unreadable, no JSON, or the JSON text of
\* null, of an object without sessions, with sessions null, with sessions a
\* list, or with a sessions mapping.
FileKinds == {"missing", "unreadable", "garbage", "null", "no sessions",
              "sessions null", "sessions list", "mapping"}

\* load(): what store is afterwards, and whether load threw.  Without a file
\* the store is empty.  A read or parse error is caught.  Otherwise store is
\* the parsed value, and Object.keys(store.sessions) in the log call throws,
\* and is caught, when store or store.sessions is null or undefined; it
\* does not throw for a list.
LoadFile(f) ==
  CASE f.kind = "missing" -> [threw |-> FALSE, store |-> EmptyStore]
    [] f.kind \in {"unreadable", "garbage"} -> [threw |-> FALSE, store |-> EmptyStore]
    [] f.kind \in {"null", "no sessions", "sessions null"} ->
         [threw |-> FALSE, store |-> EmptyStore]
    [] f.kind = "sessions list" -> [threw |-> FALSE, store |-> [sessions |-> <<5>>]]
    [] OTHER -> [threw |-> FALSE, store |-> ParseSessions(f)]

\* The store files that save can have written: the JSON text of a store with
\* no, one or two Sessions.
WrittenSessions ==
  {[ampThreadId |-> a, spriteName |-> sp, userId |-> "U1", createdAt |-> c,
    updatedAt |-> u, lastSlackContextTs |-> Absent] :
     a \in AmpThreadIds, sp \in SpriteNameArgs, c \in Times, u \in Times}

WrittenFiles ==
  {Stringify([sessions |-> m]) :
     m \in UNION {[ks -> WrittenSessions] : ks \in SUBSET SessionKeys}}

\* The files load can find: one that save wrote, or one of the other kinds.
Files ==
  WrittenFiles \cup {[kind |-> k, sessions |-> <<>>] : k \in FileKinds \ {"mapping"}}

\* scheduleSave() that arms a timer on every call.
ScheduleSaveAlways(n) == n + 1

\* scheduleSave(): arms the timer unless one is pending.
ScheduleSave(n) == IF n > 0 THEN n ELSE n + 1

\* save() that clears the dirty mark although the write failed.
SaveClearsDirty(st, d, f, writeOk) ==
  IF ~d THEN [dirty |-> d, file |-> f, wrote |-> FALSE]
  ELSE IF writeOk THEN [dirty |-> FALSE, file |-> Stringify(st), wrote |-> TRUE]
  ELSE [dirty |-> FALSE, file |-> f, wrote |-> FALSE]

\* save(): nothing when the store is not dirty; else the write, which clears
\* dirty when it succeeds and is logged when it throws.
Save(st, d, f, writeOk) ==
  IF ~d THEN [dirty |-> d, file |-> f, wrote |-> FALSE]
  ELSE IF writeOk THEN [dirty |-> FALSE, file |-> Stringify(st), wrote |-> TRUE]
  ELSE [dirty |-> TRUE, file |-> f, wrote |-> FALSE]

Put(st, k, ses) ==
  [sessions |-> [j \in DOMAIN st.sessions \cup {k} |->
                   IF j = k THEN ses ELSE st.sessions[j]]]

\* set() that stamps createdAt anew on every call.
SetSessionRestamped(st, k, ampThreadId, userId, spriteName, t) ==
  Put(st, k, [ampThreadId |-> ampThreadId, spriteName |-> spriteName, userId |-> userId,
              createdAt |-> t, updatedAt |-> t, lastSlackContextTs |-> Absent])

\* set(): the Session of the key is replaced by a new object that keeps the
\* createdAt of the old one.
SetSession(st, k, ampThreadId, userId, spriteName, t) ==
  Put(st, k, [ampThreadId |-> ampThreadId, spriteName |-> spriteName, userId |-> userId,
              createdAt |-> IF k \in DOMAIN st.sessions THEN st.sessions[k].createdAt ELSE t,
              updatedAt |-> t, lastSlackContextTs |-> Absent])

\* A cleanup that also removes the Sessions that are exactly at the cutoff.
ExpiredInclusive(st, cutoff) == {k \in DOMAIN st.sessions : st.sessions[k].updatedAt <= cutoff}

\* cleanup: the keys with updatedAt < cutoff.
Expired(st, cutoff) == {k \in DOMAIN st.sessions : st.sessions[k].updatedAt < cutoff}

\* set(channelId, threadTs, ampThreadId, userId, spriteName?)
Set(k, a, sp) ==
  /\ store' = SetSession(store, k, a, "U1", sp, now)
  /\ dirty' = TRUE
  /\ saveTimers' = ScheduleSave(saveTimers)
  /\ op' = [name |-> "set", arg |-> 0, wrote |-> FALSE, returned |-> 0]
  /\ UNCHANGED <<file, now>>
  /\ UNCHANGED <<poolVars, handlerVars, parseVars, slotVars, fileVars, execVars, errVars, clientVars, executorVars>>

\* A partial mutator that leaves updatedAt as it is.
UpdateSessionUnstamped(st, k, field, value, t) ==
  IF k \in DOMAIN st.sessions
    THEN Put(st, k, [st.sessions[k] EXCEPT ![field] = value])
    ELSE st

\* The body of updateAmpThreadId and updateLastSlackContextTs: when the key
\* has a Session, the field and updatedAt are assigned on it.
UpdateSession(st, k, field, value, t) ==
  IF k \in DOMAIN st.sessions
    THEN Put(st, k, [st.sessions[k] EXCEPT ![field] = value, !.updatedAt = t])
    ELSE st

\* updateAmpThreadId(channelId, threadTs, ampThreadId): on a key without a
\* Session nothing happens.
UpdateAmpThreadId(k, a) ==
  LET existing == k \in DOMAIN store.sessions IN
  /\ store' = UpdateSession(store, k, "ampThreadId", a, now)
  /\ dirty' = (existing \/ dirty)
  /\ saveTimers' = IF existing THEN ScheduleSave(saveTimers) ELSE saveTimers
  /\ op' = [name |-> IF existing THEN "updateAmpThreadId"
                                  ELSE "updateAmpThreadId: no session",
            arg |-> 0, wrote |-> FALSE, returned |-> 0]
  /\ UNCHANGED <<file, now>>
  /\ UNCHANGED <<poolVars, handlerVars, parseVars, slotVars, fileVars, execVars, errVars, clientVars, executorVars>>

\* updateLastSlackContextTs(channelId, threadTs, ts): on a key without a
\* Session nothing happens.
UpdateLastSlackContextTs(k, ts) ==
  LET existing == k \in DOMAIN store.sessions IN
  /\ store' = UpdateSession(store, k, "lastSlackContextTs", ts, now)
  /\ dirty' = (existing \/ dirty)
  /\ saveTimers' = IF existing THEN ScheduleSave(saveTimers) ELSE saveTimers
  /\ op' = [name |-> IF existing THEN "updateLastSlackContextTs"
                                  ELSE "updateLastSlackContextTs: no session",
            arg |-> 0, wrote |-> FALSE, returned |-> 0]
  /\ UNCHANGED <<file, now>>
  /\ UNCHANGED <<poolVars, handlerVars, parseVars, slotVars, fileVars, execVars, errVars, clientVars, executorVars>>

\* cleanup(maxAgeDays): deletes the expired Sessions; when there were some,
\* marks the store dirty and calls save() at once.  writeOk: the write works.
Cleanup(age, writeOk) ==
  LET gone == Expired(store, now - age)
      kept == [sessions |-> [k \in DOMAIN store.sessions \ gone |-> store.sessions[k]]]
      sv == Save(kept, TRUE, file, writeOk)
  IN  /\ store' = kept
      /\ IF gone # {}
           THEN /\ dirty' = sv.dirty
                /\ file' = sv.file
                /\ op' = [name |-> "cleanup", arg |-> age, wrote |-> sv.wrote,
                          returned |-> Cardinality(gone)]
           ELSE /\ UNCHANGED <<dirty, file>>
                /\ op' = [name |-> "cleanup", arg |-> age, wrote |-> FALSE, returned |-> 0]
      /\ UNCHANGED <<saveTimers, now>>
      /\ UNCHANGED <<poolVars, handlerVars, parseVars, slotVars, fileVars, execVars, errVars, clientVars, executorVars>>

\* The timer of scheduleSave fires: save(), then saveTimeout = null.
SaveTimerFires(writeOk) ==
  /\ saveTimers > 0
  /\ LET sv == Save(store, dirty, file, writeOk) IN
       /\ dirty' = sv.dirty
       /\ file' = sv.file
       /\ op' = [name |-> "timer", arg |-> 0, wrote |-> sv.wrote, returned |-> 0]
  /\ saveTimers' = saveTimers - 1
  /\ UNCHANGED <<store, now>>
  /\ UNCHANGED <<poolVars, handlerVars, parseVars, slotVars, fileVars, execVars, errVars, clientVars, executorVars>>

\* The process starts again and calls load(): the module's state is new and
\* the store is read from the file.
Load ==
  /\ op.name # "load"
  /\ store' = LoadFile(file).store
  /\ dirty' = FALSE
  /\ saveTimers' = 0
  /\ op' = [name |-> "load", arg |-> 0, wrote |-> FALSE, returned |-> 0]
  /\ UNCHANGED <<file, now>>
  /\ UNCHANGED <<poolVars, handlerVars, parseVars, slotVars, fileVars, execVars, errVars, clientVars, executorVars>>

\* The process is stopped (killed, or the machine goes down) while the timer's
\* save() is in writeFileSync, which truncates the file and then writes the
\* text in place: the file is left as it was, cut off, or complete.  The
\* module state of the next process is the initial one.
CrashInSave(left) ==
  /\ saveTimers > 0
  /\ dirty
  /\ file' = CASE left = "old" -> file
               [] left = "torn" -> [kind |-> "garbage", sessions |-> <<>>]
               [] OTHER -> Stringify(store)
  /\ store' = EmptyStore
  /\ dirty' = FALSE
  /\ saveTimers' = 0
  /\ op' = [name |-> "crash", arg |-> 0, wrote |-> left # "old", returned |-> 0]
  /\ UNCHANGED now
  /\ UNCHANGED <<poolVars, handlerVars, parseVars, slotVars, fileVars, execVars, errVars, clientVars, executorVars>>

\* Time passes.
TimePasses ==
  /\ now < MaxTime
  /\ now' = now + 1
  /\ UNCHANGED <<store, dirty, saveTimers, file, op>>
  /\ UNCHANGED <<poolVars, handlerVars, parseVars, slotVars, fileVars, execVars, errVars, clientVars, executorVars>>

\* ------------------------------------------------------------ the debouncer
\* A join with a single newline between the fragments.
RECURSIVE JoinNewline(_)
JoinNewline(ts) ==
  IF ts = <<>> THEN ""
  ELSE IF Len(ts) = 1 THEN ts[1]
  ELSE ts[1] \o "\n" \o JoinNewline(Tail(ts))

\* texts.join("\n\n")
RECURSIVE Join(_)
Join(ts) ==
  IF ts = <<>> THEN ""
  ELSE IF Len(ts) = 1 THEN ts[1]
  ELSE ts[1] \o "\n\n" \o Join(Tail(ts))

Range(f) == {f[i] : i \in DOMAIN f}

\* A debounce whose later call replaces entry.resolve instead of chaining it.
DebounceReplacing(p, key, h, text) ==
  IF key \in DOMAIN p
    THEN [p EXCEPT ![key] = [texts |-> Append(@.texts, text),
                             resolve |-> <<h>>,
                             timer |-> DebounceTicks,
                             quiet |-> 0,
                             win |-> @.win]]
    ELSE (key :> [texts |-> <<text>>, resolve |-> <<h>>,
                  timer |-> DebounceTicks, quiet |-> 0, win |-> nWin + 1]) @@ p

\* A debounce that batches in a fixed window: a later call leaves the running
\* timer as it is.
DebounceFixedWindow(p, key, h, text) ==
  IF key \in DOMAIN p
    THEN [p EXCEPT ![key] = [texts |-> Append(@.texts, text),
                             resolve |-> Append(@.resolve, h),
                             timer |-> @.timer,
                             quiet |-> 0,
                             win |-> @.win]]
    ELSE (key :> [texts |-> <<text>>, resolve |-> <<h>>,
                  timer |-> DebounceTicks, quiet |-> 0, win |-> nWin + 1]) @@ p

\* debounce(key, text), called by the handler of event h: the map afterwards.
\* resolve lists the promises that entry.resolve settles, in the order it
\* calls them; timer is the time left on the entry's timer; quiet is the time
\* since the last call on the key; win numbers the entries created.
Debounce(p, key, h, text) ==
  IF key \in DOMAIN p
    THEN [p EXCEPT ![key] = [texts |-> Append(@.texts, text),
                             resolve |-> Append(@.resolve, h),
                             timer |-> DebounceTicks,
                             quiet |-> 0,
                             win |-> @.win]]
    ELSE (key :> [texts |-> <<text>>, resolve |-> <<h>>,
                  timer |-> DebounceTicks, quiet |-> 0, win |-> nWin + 1]) @@ p

\* pending.delete(key)
Without(p, key) == [k \in DOMAIN p \ {key} |-> p[k]]

\* A cancel that leaves the entry where it is.
CancelNothing(p, key) == p

\* cancel(key): clears the timer and deletes the entry, if there is one.
Cancel(p, key) == Without(p, key)

DebounceKey(e) == <<e.thread, e.user>>
SessionKey(e) == e.thread

\* The handler of event h calls debounce.
CallDebounce(h, e) ==
  /\ pending' = Debounce(pending, DebounceKey(e), h, Fragments[h])
  /\ nWin' = IF DebounceKey(e) \in DOMAIN pending THEN nWin ELSE nWin + 1
  /\ calls' = [calls EXCEPT ![pending'[DebounceKey(e)].win] = @ + 1]
  /\ sent' = [sent EXCEPT ![pending'[DebounceKey(e)].win] = Append(@, h)]

\* Time passes; a timer that is due fires first.
Tick ==
  /\ DOMAIN pending # {}
  /\ \A k \in DOMAIN pending : pending[k].timer > 0
  /\ pending' = [k \in DOMAIN pending |-> [pending[k] EXCEPT !.timer = @ - 1, !.quiet = @ + 1]]
  /\ UNCHANGED <<inFlight, ev, hpc, prompt, hwin, nWin, calls, sent, delivered, execs, cancelled>>
  /\ UNCHANGED <<poolVars, parseVars, auxVars>>

\* --------------------------------------------------- the Slack event handlers
\* app.event("app_mention") and app.event("message") have the same steps.
NoEvent == [thread |-> "", user |-> ""]

\* An event of an allowed user with a text arrives while its thread is in
\* flight: the text goes to the debouncer and the handler returns.
EventFed(h) ==
  /\ hpc[h] = "none"
  /\ IF h = 1 THEN TRUE ELSE hpc[h - 1] # "none"
  /\ \E t \in Threads, u \in Users :
       LET e == [thread |-> t, user |-> u] IN
       /\ SessionKey(e) \in inFlight
       /\ CallDebounce(h, e)
  /\ hpc' = [hpc EXCEPT ![h] = "fed"]
  /\ UNCHANGED <<inFlight, ev, prompt, hwin, delivered, execs, cancelled>>
  /\ UNCHANGED <<poolVars, parseVars, auxVars>>

\* The event arrives while its thread is not in flight: the handler awaits
\* the reaction it adds to the message.
EventStarts(h) ==
  /\ hpc[h] = "none"
  /\ IF h = 1 THEN TRUE ELSE hpc[h - 1] # "none"
  /\ \E t \in Threads, u \in Users :
       LET e == [thread |-> t, user |-> u] IN
       /\ SessionKey(e) \notin inFlight
       /\ ev' = [ev EXCEPT ![h] = e]
  /\ hpc' = [hpc EXCEPT ![h] = "react"]
  /\ UNCHANGED <<inFlight, pending, prompt, hwin, nWin, calls, sent, delivered, execs, cancelled>>
  /\ UNCHANGED <<poolVars, parseVars, auxVars>>

\* The reaction call has settled: the try block adds the thread to inFlight
\* and awaits debounce.
Reacted(h) ==
  /\ hpc[h] = "react"
  /\ inFlight' = inFlight \cup {SessionKey(ev[h])}
  /\ CallDebounce(h, ev[h])
  /\ hwin' = [hwin EXCEPT ![h] = pending'[DebounceKey(ev[h])].win]
  /\ hpc' = [hpc EXCEPT ![h] = "debounce"]
  /\ UNCHANGED <<ev, prompt, delivered, execs, cancelled>>
  /\ UNCHANGED <<poolVars, parseVars, auxVars>>

\* flush(key), run by the entry's timer: the entry is deleted and
\* entry.resolve(combined) settles the promises.  Each handler awaiting one
\* goes on to its next await: the fetch of the thread's history (a message in
\* a thread without session), or else runAmp.
Flush(k) ==
  /\ k \in DOMAIN pending
  /\ pending[k].timer = 0
  /\ LET e == pending[k]
         combined == Join(e.texts)
         waiting == {h \in Range(e.resolve) : hpc[h] = "debounce"}
     IN  \E fetch \in SUBSET waiting :
           /\ pending' = Without(pending, k)
           /\ delivered' = [delivered EXCEPT ![e.win] = [i \in DOMAIN e.resolve |-> combined]]
           /\ prompt' = [h \in Events |-> IF h \in waiting THEN combined ELSE prompt[h]]
           /\ hpc' = [h \in Events |-> IF h \in fetch THEN "history"
                                       ELSE IF h \in waiting THEN "run" ELSE hpc[h]]
           /\ execs' = [execs EXCEPT ![e.win] = @ + Cardinality(waiting \ fetch)]
  /\ UNCHANGED <<inFlight, ev, hwin, nWin, calls, sent, cancelled>>
  /\ UNCHANGED <<poolVars, parseVars, auxVars>>

\* The history is fetched: runAmp starts.
HistoryFetched(h) ==
  /\ hpc[h] = "history"
  /\ hpc' = [hpc EXCEPT ![h] = "run"]
  /\ execs' = [execs EXCEPT ![hwin[h]] = @ + 1]
  /\ UNCHANGED <<inFlight, pending, ev, prompt, hwin, nWin, calls, sent, delivered, cancelled>>
  /\ UNCHANGED <<poolVars, parseVars, auxVars>>

\* The catch block: cancel(debounceKey), then the error message is sent.
Catch(h) ==
  /\ pending' = Cancel(pending, DebounceKey(ev[h]))
  /\ cancelled' = cancelled \cup {pending[k].win : k \in DOMAIN pending \cap {DebounceKey(ev[h])}}
  /\ hpc' = [hpc EXCEPT ![h] = "say"]
  /\ UNCHANGED <<inFlight, ev, prompt, hwin, nWin, calls, sent, delivered, execs>>

\* The finally block: the thread leaves inFlight; the handler returns (or
\* throws) after a last reaction call.
Finally(h) ==
  /\ inFlight' = inFlight \ {SessionKey(ev[h])}
  /\ hpc' = [hpc EXCEPT ![h] = "end"]
  /\ ev' = [ev EXCEPT ![h] = NoEvent]
  /\ prompt' = [prompt EXCEPT ![h] = ""]
  /\ hwin' = [hwin EXCEPT ![h] = 0]
  /\ UNCHANGED <<pending, nWin, calls, sent, delivered, execs, cancelled>>

\* auth.test or the fetch of the history throws.
HistoryFails(h) ==
  /\ hpc[h] = "history"
  /\ Catch(h)
  /\ UNCHANGED <<poolVars, parseVars, auxVars>>

\* runAmp returned and the answer is sent.
RunSucceeds(h) ==
  /\ hpc[h] = "run"
  /\ Finally(h)
  /\ UNCHANGED <<poolVars, parseVars, auxVars>>

\* runAmp throws, or sending the answer does.
RunFails(h) ==
  /\ hpc[h] = "run"
  /\ Catch(h)
  /\ UNCHANGED <<poolVars, parseVars, auxVars>>

\* The error message is sent, or say throws: the finally block runs.
Said(h) ==
  /\ hpc[h] = "say"
  /\ Finally(h)
  /\ UNCHANGED <<poolVars, parseVars, auxVars>>

InitPool ==
  /\ runners = [r \in Slots |-> [locked |-> FALSE, ready |-> FALSE, checkpointId |-> 0]]
  /\ waitQueue = <<>>
  /\ initPc = [r \in Slots |-> "try"]
  /\ attempt = [r \in Slots |-> 1]
  /\ pc = [c \in Callers |-> "idle"]
  /\ rn = [c \in Callers |-> -1]
  /\ viaQueue = [c \in Callers |-> FALSE]
  /\ acquired = [c \in Callers |-> FALSE]
  /\ releaseCalls = [c \in Callers |-> 0]
  /\ tryThrew = [c \in Callers |-> FALSE]
  /\ leftBehind = [c \in Callers |-> 0]

InitHandlers ==
  /\ inFlight = {}
  /\ pending = <<>>
  /\ ev = [h \in Events |-> NoEvent]
  /\ hpc = [h \in Events |-> "none"]
  /\ prompt = [h \in Events |-> ""]
  /\ hwin = [h \in Events |-> 0]
  /\ nWin = 0
  /\ calls = [w \in Events |-> 0]
  /\ delivered = [w \in Events |-> <<>>]
  /\ execs = [w \in Events |-> 0]
  /\ sent = [w \in Events |-> <<>>]
  /\ cancelled = {}

\* No error was caught.
InitErr ==
  /\ err = [kind |-> "object", text |-> <<>>]
  /\ reply = ""

\* No client call is followed.
InitClient ==
  /\ call = [method |-> "get", timeoutMs |-> 0, provider |-> "ok"]
  /\ cpc = "idle"
  /\ elapsed = 0

\* No Session, no sandbox, no request.
InitExecutor ==
  /\ sessSprite = [t \in Threads |-> ""]
  /\ sprites = {}
  /\ poolReady = {}
  /\ req = NoRequest
  /\ nReq = 0

\* The module is loaded: an empty store, not dirty, no timer, no file.
InitStore ==
  /\ store = EmptyStore
  /\ dirty = FALSE
  /\ saveTimers = 0
  /\ file = NoFile
  /\ now = 0
  /\ op = [name |-> "none", arg |-> 0, wrote |-> FALSE, returned |-> 0]

\* A call of exec that has just returned its promise.
InitExec == wsExec = NewExec

\* No output with files is followed.
InitFiles == artifacts = [records |-> <<>>, pc |-> "none", files |-> <<>>, uploads |-> <<>>]

\* No slot is followed.
InitSlot == slot = NewSlot(NoSandbox)

InitAux == InitErr /\ InitClient /\ InitExecutor /\ InitStore /\ InitSlot /\ InitFiles /\ InitExec

InitParse ==
  /\ stdout = <<>>
  /\ exitCode = 0
  /\ outcome = NoOutcome


\* The runner pool and its callers.
Init ==
  /\ InitPool
  /\ sandbox \in [Slots -> LeftOver]
  /\ InitHandlers
  /\ InitParse
  /\ InitAux

Next ==
  \/ \E r \in Slots : InitSucceeds(r) \/ InitFails(r) \/ InitRetry(r)
  \/ \E c \in Callers :
       \/ AcquireFree(c) \/ AcquireWarmingUp(c) \/ AcquireQueue(c)
       \/ ProbeHealthy(c) \/ ProbeUnhealthy(c) \/ LockRebuilt(c) \/ LockRebuildFails(c)
       \/ SettingsFails(c) \/ NoApiKey(c) \/ SettingsWritten(c)
       \/ GitHubDone(c) \/ GitHubFails(c)
       \/ AgentTimesOut(c) \/ AgentError(c) \/ AgentDone(c)
       \/ RestoreDone(c) \/ RestoreFails(c) \/ ReleaseRebuilt(c) \/ ReleaseRebuildFails(c)

Spec == Init /\ [][Next]_vars

\* The pool when the backoff timer of each slot fires and the provider's calls
\* do not fail for ever: an attempt of initRunner that is made again and
\* again eventually returns.
Fairness ==
  \A r \in Slots : WF_vars(InitRetry(r)) /\ SF_vars(InitSucceeds(r))

FairSpec == Spec /\ Fairness

\* The event handlers and the debouncer.
HandlerInit ==
  /\ InitPool
  /\ sandbox = [r \in Slots |-> NoSandbox]
  /\ InitHandlers
  /\ InitParse
  /\ InitAux

HandlerNext ==
  \/ Tick
  \/ \E k \in Threads \X Users : Flush(k)
  \/ \E h \in Events :
       \/ EventFed(h) \/ EventStarts(h) \/ Reacted(h)
       \/ HistoryFetched(h) \/ HistoryFails(h)
       \/ RunSucceeds(h) \/ RunFails(h) \/ Said(h)

HandlerSpec == HandlerInit /\ [][HandlerNext]_vars

\* The end of executeInSprite on every output and exit code of the agent.
ParseInit ==
  /\ InitPool
  /\ sandbox = [r \in Slots |-> NoSandbox]
  /\ InitHandlers
  /\ stdout \in Outputs
  /\ exitCode \in ExitCodes
  /\ outcome = NoOutcome
  /\ InitAux

ParseNext == ExecThrows \/ ExecReturns

ParseSpec == ParseInit /\ [][ParseNext]_vars

\* formatErrorForUser on every value a catch block can catch.
FormatInit ==
  /\ InitPool
  /\ sandbox = [r \in Slots |-> NoSandbox]
  /\ InitHandlers
  /\ InitParse
  /\ err \in Thrown
  /\ reply = ""
  /\ InitClient
  /\ InitExecutor
  /\ InitSlot
  /\ InitFiles
  /\ InitExec
  /\ InitStore

FormatNext == SayError

FormatSpec == FormatInit /\ [][FormatNext]_vars

\* One call of each client method, with each behaviour of the provider.
ClientInit ==
  /\ InitPool
  /\ sandbox = [r \in Slots |-> NoSandbox]
  /\ InitHandlers
  /\ InitParse
  /\ InitErr
  /\ call \in {c \in ClientCalls : c.timeoutMs \in TimeoutOptions(c.method)}
  /\ cpc = "idle"
  /\ elapsed = 0
  /\ InitExecutor
  /\ InitSlot
  /\ InitFiles
  /\ InitExec
  /\ InitStore

ClientNext == CallStarts \/ CallWaits \/ CallTimesOut \/ CallResolves \/ CallRejects

ClientSpec == ClientInit /\ [][ClientNext]_vars

\* The per-thread executor: requests on two threads, a pool that holds one
\* pre-warmed sandbox or none, and sandboxes that the provider drops.
ExecutorInit ==
  /\ InitPool
  /\ sandbox = [r \in Slots |-> NoSandbox]
  /\ InitHandlers
  /\ InitParse
  /\ InitErr
  /\ InitClient
  /\ sessSprite = [t \in Threads |-> ""]
  /\ \E ps \in SUBSET PoolSprites : poolReady = ps /\ sprites = ps
  /\ req = NoRequest
  /\ nReq = 0
  /\ InitStore
  /\ InitSlot
  /\ InitFiles
  /\ InitExec

ExecutorNext ==
  \/ \E t \in Threads : ExecStarts(t)
  \/ HealthOk \/ HealthFails \/ ExecDone
  \/ \E ok \in BOOLEAN : ExecEndsWithoutSession(ok)
  \/ \E n \in SpriteNames : SpriteDeleted(n)

ExecutorSpec == ExecutorInit /\ [][ExecutorNext]_vars

\* The session store from the start of the process.
StoreInit ==
  /\ InitPool
  /\ sandbox = [r \in Slots |-> NoSandbox]
  /\ InitHandlers
  /\ InitParse
  /\ InitErr
  /\ InitClient
  /\ InitExecutor
  /\ InitSlot
  /\ InitFiles
  /\ InitExec
  /\ InitStore

StoreNext ==
  \/ \E x \in SetArgs : Set(x[1], x[2], x[3])
  \/ \E k \in SessionKeys : UpdateAmpThreadId(k, "T-2")
  \/ \E ts \in ContextTs : UpdateLastSlackContextTs("C1:1.0", ts)
  \/ \E age \in MaxAges, writeOk \in BOOLEAN : Cleanup(age, writeOk)
  \/ \E writeOk \in BOOLEAN : SaveTimerFires(writeOk)
  \/ Load
  \/ TimePasses

StoreSpec == StoreInit /\ [][StoreNext]_vars

\* load() at the start of the process, on every store file it can find.
LoadInit ==
  /\ InitPool
  /\ sandbox = [r \in Slots |-> NoSandbox]
  /\ InitHandlers
  /\ InitParse
  /\ InitErr
  /\ InitClient
  /\ InitExecutor
  /\ InitSlot
  /\ InitFiles
  /\ InitExec
  /\ store = EmptyStore
  /\ dirty = FALSE
  /\ saveTimers = 0
  /\ file \in Files
  /\ now = 0
  /\ op = [name |-> "none", arg |-> 0, wrote |-> FALSE, returned |-> 0]

LoadNext == Load

LoadSpec == LoadInit /\ [][LoadNext]_vars

\* The provisioning loop of one slot, on every sandbox a previous run of the
\* process can have left.
SlotInit ==
  /\ InitPool
  /\ sandbox = [r \in Slots |-> NoSandbox]
  /\ InitHandlers
  /\ InitParse
  /\ InitErr
  /\ InitClient
  /\ InitExecutor
  /\ InitStore
  /\ \E s \in LeftOver : slot = NewSlot(s)
  /\ InitFiles
  /\ InitExec

SlotNext ==
  \/ \E e \in InitEnvs : SlotTry(e)
  \/ SlotRetry

SlotSpec == SlotInit /\ [][SlotNext]_vars

\* The files of an agent output, for every sequence of tool records.
FilesInit ==
  /\ InitPool
  /\ sandbox = [r \in Slots |-> NoSandbox]
  /\ InitHandlers
  /\ InitParse
  /\ InitErr
  /\ InitClient
  /\ InitExecutor
  /\ InitStore
  /\ InitSlot
  /\ \E rs \in RecordSeqs :
       artifacts = [records |-> rs, pc |-> "parse", files |-> <<>>, uploads |-> <<>>]
  /\ InitExec

FilesNext == ParseFiles \/ UploadFile

FilesSpec == FilesInit /\ [][FilesNext]_vars

\* One call of exec and the events of its connection and timer.
ExecInit ==
  /\ InitPool
  /\ sandbox = [r \in Slots |-> NoSandbox]
  /\ InitHandlers
  /\ InitParse
  /\ InitAux

ExecNext ==
  \/ \E stream \in {1, 2} : ExecOutput(stream)
  \/ \E code \in ExitCodes : ExecExit(code)
  \/ ExecTimerFires
  \/ ExecClose
  \/ ExecError

ExecSpec == ExecInit /\ [][ExecNext]_vars

\* The session store of a process that can be stopped in the middle of a save.
CrashOutcomes == {"old", "torn", "new"}

CrashNext ==
  \/ \E x \in SetArgs : Set(x[1], x[2], x[3])
  \/ \E k \in SessionKeys : UpdateAmpThreadId(k, "T-2")
  \/ \E ts \in ContextTs : UpdateLastSlackContextTs("C1:1.0", ts)
  \/ \E age \in MaxAges, writeOk \in BOOLEAN : Cleanup(age, writeOk)
  \/ \E writeOk \in BOOLEAN : SaveTimerFires(writeOk)
  \/ \E left \in CrashOutcomes : CrashInSave(left)
  \/ Load
  \/ TimePasses

CrashSpec == StoreInit /\ [][CrashNext]_vars

\* ============================================================ the runner pool
Holding == {"settings", "github", "agent", "restore", "relrebuild"}
InLockRunner == {"probe", "rebuild"}

\* C1: each runner is held by at most one caller.  A caller is on a runner
\* from the moment lockRunner locks it for that caller until its release()
\* has ended; two callers are never on the same runner, the runner is ready
\* and locked all that time, a queued caller is on no runner, and at most
\* NumRunners callers hold a runner at once.
MutualExclusion ==
  /\ \A c, d \in Callers : (c # d /\ rn[c] # -1 /\ rn[d] # -1) => rn[c] # rn[d]
  /\ \A c \in Callers :
       /\ (pc[c] \in Holding \cup InLockRunner) <=> (rn[c] # -1)
       /\ rn[c] # -1 => rn[c] \in Slots /\ runners[rn[c]].ready /\ runners[rn[c]].locked
       /\ pc[c] = "queued" => \E i \in DOMAIN waitQueue : waitQueue[i] = c
  /\ Cardinality({c \in Callers : pc[c] \in Holding}) <= NumRunners

\* Every runner is in use by a caller and one more caller waits in the queue.
MutualExclusionWitness ==
  \E w \in Callers :
    /\ pc[w] = "queued"
    /\ \A r \in Slots : \E c \in Callers : pc[c] = "agent" /\ rn[c] = r

FifoStep ==
  /\ \A c \in Callers :
       (pc[c] = "queued" /\ pc'[c] # "queued") =>
         /\ c = Head(waitQueue)
         /\ waitQueue' = Tail(waitQueue)
         /\ pc'[c] = "probe"
         /\ rn'[c] \in Slots /\ runners'[rn'[c]].locked
  /\ \/ waitQueue' = waitQueue
     \/ waitQueue # <<>> /\ waitQueue' = Tail(waitQueue)
     \/ \E c \in Callers : pc[c] = "idle" /\ waitQueue' = Append(waitQueue, c)
  /\ \A c \in Callers :
       (waitQueue # <<>> /\ (RestoreDone(c) \/ ReleaseRebuilt(c) \/ LockRebuildFails(c))) =>
         rn'[Head(waitQueue)] = rn[c]
  /\ \A r \in Slots :
       (waitQueue # <<>> /\ InitSucceeds(r)) => rn'[Head(waitQueue)] = r

FifoFairness == [][FifoStep]_vars

\* A caller was taken from the queue ahead of a caller that was queued behind
\* it, and that one still waits.
FifoFairnessWitness ==
  \E a, b \in Callers :
    /\ a # b
    /\ pc[a] = "probe" /\ leftBehind[a] = 1
    /\ waitQueue = <<b>>

\* C4: every release() ends with the runner unlocked or handed to the first
\* waiter: a runner that is locked is locked for a caller whose lockRunner or
\* request is still under way.
ReleaseAlwaysUnlocks ==
  \A r \in Slots : runners[r].locked => \E c \in Callers : rn[c] = r

\* C5: an acquireRunner whose lock attempt failed has thrown to its caller:
\* no caller's acquireRunner is left without an outcome.
LockFailureReachesCaller ==
  \A c \in Callers : pc[c] # "pending"

\* C6: release() is invoked exactly once by a request whose acquireRunner
\* returned, before the request ends, and never by a request whose
\* acquireRunner threw or has not returned.
OneReleasePerAcquire ==
  \A c \in Callers :
    /\ releaseCalls[c] <= 1
    /\ pc[c] \in {"idle", "queued", "probe", "rebuild", "threw", "pending"} =>
         ~acquired[c] /\ releaseCalls[c] = 0
    /\ pc[c] \in {"settings", "github", "agent"} => acquired[c] /\ releaseCalls[c] = 0
    /\ pc[c] \in {"restore", "relrebuild", "done"} => acquired[c] /\ releaseCalls[c] = 1

\* A request whose try block threw has ended, and another request was
\* refused a runner: the first one released once, the other one never.
OneReleasePerAcquireWitness ==
  \E c, d \in Callers :
    /\ pc[c] = "done" /\ tryThrew[c] /\ releaseCalls[c] = 1
    /\ pc[d] = "threw" /\ releaseCalls[d] = 0

\* C7: an acquireRunner called while no runner is ready throws at once: the
\* caller is not queued, and the queue and the runners stay as they are.
WarmUpStep ==
  \A c \in Callers :
    (pc[c] = "idle" /\ pc'[c] # "idle" /\ \A r \in Slots : ~runners[r].ready) =>
      /\ pc'[c] = "threw"
      /\ UNCHANGED <<runners, waitQueue, rn>>

FailFastDuringWarmUp == [][WarmUpStep]_vars

\* A caller was refused while no runner is ready.
FailFastDuringWarmUpWitness ==
  /\ \E c \in Callers : pc[c] = "threw"
  /\ \A r \in Slots : ~runners[r].ready
  /\ waitQueue = <<>>

\* ==================================================== handlers and debouncer
\* The handler is past its inFlight check and before its finally block.
Orchestrating(h) == hpc[h] \in {"react", "debounce", "history", "run", "say"}

\* C8: for every thread at most one handler is past its inFlight check and
\* before its finally block.
OneHandlerPerThread ==
  \A g, h \in Events :
    (g # h /\ Orchestrating(g) /\ Orchestrating(h)) => ev[g].thread # ev[h].thread

\* C9: the text of one window is executed at most once.
OneExecutionPerWindow ==
  \A w \in Events : execs[w] <= 1

\* C10: a flush settles the promise of every debounce call that went to the
\* window, all with the same string, and every handler that awaited the
\* window has that string as its prompt.
SameTextForEveryCaller ==
  /\ \A w \in Events :
       delivered[w] # <<>> =>
         /\ Len(delivered[w]) = calls[w]
         /\ \A i \in DOMAIN delivered[w] : delivered[w][i] = delivered[w][1]
  /\ \A h \in Events :
       (hwin[h] # 0 /\ delivered[hwin[h]] # <<>>) =>
         /\ hpc[h] # "debounce"
         /\ prompt[h] = delivered[hwin[h]][1]

\* A window that two debounce calls went to was flushed, and a handler runs
\* with its text.
SameTextForEveryCallerWitness ==
  \E h \in Events :
    /\ hpc[h] = "run"
    /\ calls[hwin[h]] >= 2
    /\ Len(delivered[hwin[h]]) >= 2

\* C11: the debounce timer counts the quiet period.  Every call on a key
\* restarts the timer, so the time left on it and the time since the last
\* call always add up to the delay; a window is flushed only when the whole
\* delay has passed since its last fragment, and it is flushed once.
QuietPeriodStep ==
  /\ \A k \in DOMAIN pending' :
       pending'[k].timer + pending'[k].quiet = DebounceTicks
  /\ \A k \in DOMAIN pending :
       delivered'[pending[k].win] # delivered[pending[k].win] =>
         /\ pending[k].quiet = DebounceTicks
         /\ \A j \in DOMAIN pending' : pending'[j].win # pending[k].win
  /\ \A w \in Events : delivered[w] # <<>> => delivered'[w] = delivered[w]

QuietPeriodDebounce == [][QuietPeriodStep]_vars

\* A burst of two fragments on one key was flushed, and nothing is pending.
QuietPeriodDebounceWitness ==
  /\ pending = <<>>
  /\ \E w \in Events : Len(sent[w]) = 2 /\ Len(delivered[w]) = 2

\* The texts of the events hs, in that order, with a blank line between them.
RECURSIVE BlankLineJoined(_)
BlankLineJoined(hs) ==
  IF hs = <<>> THEN ""
  ELSE IF Len(hs) = 1 THEN Fragments[hs[1]]
  ELSE BlankLineJoined(SubSeq(hs, 1, Len(hs) - 1)) \o "\n\n" \o Fragments[hs[Len(hs)]]

\* C12: a pending entry holds exactly the fragments sent to its window, in
\* arrival order; the text a flush delivers is these fragments joined by a
\* blank line; the flush deletes the entry; and a fragment is in one window only.
CombinedText ==
  /\ \A k \in DOMAIN pending :
       pending[k].texts =
         [i \in 1 .. Len(sent[pending[k].win]) |-> Fragments[sent[pending[k].win][i]]]
  /\ \A w \in Events :
       delivered[w] # <<>> =>
         /\ delivered[w][1] = BlankLineJoined(sent[w])
         /\ \A k \in DOMAIN pending : pending[k].win # w
  /\ \A v, w \in Events :
       \A i \in DOMAIN sent[v], j \in DOMAIN sent[w] :
         sent[v][i] = sent[w][j] => v = w /\ i = j

\* Fragments "a" and "b" were flushed as one text.
CombinedTextWitness ==
  \E w \in Events : delivered[w] # <<>> /\ delivered[w][1] = "a\n\nb"

\* C13: a handler's cancel removes the entry of its own key and nothing else
\* (nothing at all when the key has no entry); a cancelled window is never
\* flushed, is no longer pending, takes no further fragment, and its fragments
\* are in no other window.
CancelStep ==
  /\ \A h \in Events :
       hpc[h] \in {"history", "run"} /\ hpc'[h] = "say" =>
         /\ DOMAIN pending' = DOMAIN pending \ {DebounceKey(ev[h])}
         /\ \A k \in DOMAIN pending' : pending'[k] = pending[k]
         /\ delivered' = delivered
  /\ \A w \in cancelled' :
       /\ delivered'[w] = <<>>
       /\ \A k \in DOMAIN pending' : pending'[k].win # w
       /\ w \in cancelled => sent'[w] = sent[w]
       /\ \A v \in Events \ {w} : Range(sent'[v]) \cap Range(sent'[w]) = {}

CancelRemovesWindow == [][CancelStep]_vars

\* A window that held a fragment was cancelled.
CancelRemovesWindowWitness ==
  \E w \in cancelled : sent[w] # <<>> /\ delivered[w] = <<>>

\* C14: a queued caller is eventually served.  The queue is shifted only by a
\* release(), by the catch block of lockRunner and by a slot that becomes
\* ready, so while a caller is queued some runner must still be able to do
\* one of these: it is free, or a caller is on it, or its slot is still being
\* provisioned.
QueuedCallerIsServed ==
  waitQueue # <<>> =>
    \E r \in Slots :
      \/ ~runners[r].ready
      \/ ~runners[r].locked
      \/ \E c \in Callers : rn[c] = r

\* C15: a healthy probe returns the runner without a rebuild: sandbox and
\* checkpointId stay as they are.  A rebuild starts only after a failed probe
\* and is tried once; when it succeeds the caller gets that same runner
\* without an error, on a new clean sandbox, with checkpointId set to the
\* checkpoint just captured on it.
RebuildStep ==
  \A c \in Callers :
    /\ pc[c] = "probe" /\ pc'[c] = "settings" =>
         /\ sandbox' = sandbox
         /\ runners' = runners
    /\ pc[c] # "rebuild" /\ pc'[c] = "rebuild" => pc[c] = "probe" /\ sandbox' = sandbox
    /\ pc[c] = "rebuild" => pc'[c] \in {"rebuild", "settings", "threw", "pending"}
    /\ pc[c] = "rebuild" /\ pc'[c] = "settings" =>
         LET r == rn[c] IN
         /\ rn'[c] = r
         /\ sandbox'[r] = CleanSandbox(sandbox'[r].ckpt)
         /\ sandbox'[r].ckpt \notin {0, runners[r].checkpointId}
         /\ runners'[r] = [locked |-> TRUE, ready |-> TRUE, checkpointId |-> sandbox'[r].ckpt]
         /\ acquired'[c]
         /\ tryThrew'[c] = tryThrew[c]

RebuildOnUnhealthy == [][RebuildStep]_vars

\* Before any release, a caller holds a runner whose checkpoint is not the one
\* of its provisioning: it was rebuilt when the caller locked it.
RebuildOnUnhealthyWitness ==
  /\ \A c \in Callers : releaseCalls[c] = 0 /\ pc[c] \notin {"restore", "relrebuild"}
  /\ \E c \in Callers :
       /\ pc[c] = "settings"
       /\ runners[rn[c]].checkpointId = 2
       /\ sandbox[rn[c]] = CleanSandbox(2)

\* C16: the runner acquireRunner returns is on a sandbox whose build ran to
\* its end, and its checkpointId is the clean checkpoint of that sandbox.
ReturnedRunnerProvisioned ==
  \A c \in Callers :
    pc[c] = "settings" =>
      /\ sandbox[rn[c]].exists
      /\ sandbox[rn[c]].ckpt # 0
      /\ runners[rn[c]].checkpointId = sandbox[rn[c]].ckpt

\* C17: a failed attempt to provision a slot changes no caller's state and
\* leads to the backoff sleep, the sleep can only end in the next attempt,
\* whatever the number of attempts made, and every slot becomes ready in the
\* end (a runner stays ready once it is, so all of them are ready together).
ProvisioningStep ==
  \A r \in Slots :
    /\ initPc[r] = "try" /\ initPc'[r] # "try" =>
         \/ initPc'[r] = "ready" /\ runners'[r].ready
         \/ /\ initPc'[r] = "backoff"
            /\ pc' = pc /\ tryThrew' = tryThrew /\ runners' = runners
    /\ initPc[r] = "backoff" /\ initPc'[r] # "backoff" =>
         initPc'[r] = "try" /\ attempt'[r] = attempt[r] + 1

ProvisioningNeverGivesUp ==
  /\ [][ProvisioningStep]_vars
  /\ <>(\A r \in Slots : runners[r].ready)

\* A slot is provisioned again after a failed attempt, and no caller has seen
\* an error from a release or from lockRunner.
ProvisioningNeverGivesUpWitness ==
  /\ \E r \in Slots : initPc[r] = "try" /\ attempt[r] > 1
  /\ \A c \in Callers : pc[c] \notin {"threw", "pending"}

\* C18: a caller that arrives while a ready runner is free gets it, whatever
\* the state of the other slots; and a slot that becomes ready while callers
\* are queued is locked at once for the head of the queue, in the step that
\* makes it ready, which is no release.
PartialReadinessStep ==
  /\ \A c \in Callers :
       pc[c] = "idle" /\ pc'[c] # "idle" /\ (\E r \in Slots : runners[r].ready /\ ~runners[r].locked) =>
         /\ pc'[c] = "probe"
         /\ runners[rn'[c]].ready /\ ~runners[rn'[c]].locked
         /\ initPc' = initPc
  /\ \A r \in Slots :
       ~runners[r].ready /\ runners'[r].ready /\ waitQueue # <<>> =>
         /\ waitQueue' = Tail(waitQueue)
         /\ pc'[Head(waitQueue)] = "probe"
         /\ rn'[Head(waitQueue)] = r
         /\ runners'[r].locked
         /\ releaseCalls' = releaseCalls
         /\ \A c \in Callers : pc[c] \in {"restore", "relrebuild"} => pc'[c] = pc[c]

PartialReadiness == [][PartialReadinessStep]_vars

\* A queued caller has been handed a runner although no release() was called
\* and no lockRunner failed: the runner came from a slot that became ready
\* while the other runner was in use.
PartialReadinessWitness ==
  /\ \A c \in Callers : releaseCalls[c] = 0 /\ pc[c] \notin {"threw", "pending", "restore", "relrebuild"}
  /\ \E c, d \in Callers :
       /\ pc[c] = "probe" /\ viaQueue[c]
       /\ pc[d] \in Holding /\ rn[d] # rn[c]

\* C19: the statistics are ordered, available <= ready <= total; total is the
\* number of slots given to initRunners and the slots keep their names; ready
\* is zero exactly when acquireRunner reports the warm-up, and available
\* counts the runners that acquireRunner's search can find.
StatsSnapshot ==
  LET s == GetRunnerStats IN
  /\ s.available <= s.ready /\ s.ready <= s.total
  /\ s.total = NumRunners
  /\ DOMAIN runners = Slots
  /\ (s.ready = 0) <=> (\A r \in Slots : ~runners[r].ready)
  /\ s.available = Cardinality({r \in Slots : runners[r].ready /\ ~runners[r].locked})
  /\ s.ready - s.available = Cardinality({r \in Slots : runners[r].locked})

\* One runner is still being provisioned and the other one is ready and in
\* use: the three counts differ.
StatsSnapshotWitness ==
  /\ GetRunnerStats = [total |-> 2, ready |-> 1, available |-> 0]
  /\ \E c \in Callers : pc[c] \in Holding

\* C20: when the agent's exec ended with a non-zero exit code and its output
\* holds no success result, executeInSprite ends with an error.
NonZeroExitIsFailure ==
  (/\ outcome.status # "none"
   /\ exitCode # 0
   /\ ~\E i \in DOMAIN stdout :
         /\ stdout[i].json /\ stdout[i].type = "result"
         /\ stdout[i].subtype = "success" /\ stdout[i].result # "")
    => outcome.status = "error"

\* The positions of the records of the output that hold a non-empty success
\* result, an error, a session id; and the largest of a set of positions.
SuccessAt == {i \in DOMAIN stdout : /\ stdout[i].json /\ stdout[i].type = "result"
                                    /\ stdout[i].subtype = "success" /\ stdout[i].result # ""}
ErrorAt == {i \in DOMAIN stdout \ SuccessAt : /\ stdout[i].json /\ stdout[i].type = "result"
                                              /\ stdout[i].is_error /\ stdout[i].error # ""}
SessionAt == {i \in DOMAIN stdout : stdout[i].json /\ stdout[i].session_id # ""}
Last(S) == CHOOSE i \in S : \A j \in S : j <= i

\* C21: the parse fails exactly when the output holds an error record and no
\* non-empty success result, in any order, and then with the agent's error
\* string; otherwise it returns the last success result and the last session
\* id of the records; lines that are not JSON count for nothing.
ParseOutcome ==
  outcome.status # "none" =>
    /\ outcome.status = "error" <=> (ErrorAt # {} /\ SuccessAt = {})
    /\ outcome.status = "error" => outcome.error = stdout[Last(ErrorAt)].error
    /\ outcome.status = "ok" =>
         /\ outcome.content =
              IF SuccessAt = {} THEN "Done." ELSE stdout[Last(SuccessAt)].result
         /\ outcome.threadId =
              IF SessionAt = {} THEN "" ELSE stdout[Last(SessionAt)].session_id

\* An error record came after a success result, and the success is returned.
ParseOutcomeWitness ==
  /\ outcome.status = "ok" /\ outcome.content = "answer"
  /\ Len(stdout) = 2
  /\ 1 \in SuccessAt /\ 2 \in ErrorAt

\* The category of a message: the first of configuration, authentication,
\* rate limit and timeout of which it holds a phrase.
Category(message) ==
  LET has(ps) == \E i \in DOMAIN message : message[i] \in ps IN
  CASE has({"No API key", "login flow"}) -> "configuration"
    [] ~has({"No API key", "login flow"}) /\ has({"invalid_auth", "token"}) -> "authentication"
    [] ~has({"No API key", "login flow", "invalid_auth", "token"})
         /\ has({"rate limit", "too many"}) -> "rate limit"
    [] ~has({"No API key", "login flow", "invalid_auth", "token", "rate limit", "too many"})
         /\ has({"timeout", "timed out"}) -> "timeout"
    [] OTHER -> "generic"

FixedMessage ==
  [configuration |-> "I'm not configured properly. Please check the AMP_API_KEY.",
   authentication |-> "Authentication failed. Please check the bot configuration.",
   rate_limit |-> "I'm being rate limited. Please try again in a moment.",
   timeout |-> "The request timed out. Try a simpler task or try again.",
   generic |-> "Something went wrong. Please try again."]

\* C22: the text sent for an error is the fixed message of the error's
\* category, so it is one of five texts and the same for all errors of a
\* category, whatever else the raw message holds.
ErrorTextIsFixed ==
  reply # "" =>
    LET c == Category(IF err.kind = "object" THEN <<"[object Object]">> ELSE err.text)
    IN  reply = CASE c = "configuration" -> FixedMessage.configuration
                  [] c = "authentication" -> FixedMessage.authentication
                  [] c = "rate limit" -> FixedMessage.rate_limit
                  [] c = "timeout" -> FixedMessage.timeout
                  [] OTHER -> FixedMessage.generic

\* An error with a timeout phrase before an authentication phrase got the
\* authentication message.
ErrorTextIsFixedWitness ==
  /\ err.kind = "Error" /\ err.text = <<"timed out", "token">>
  /\ reply = "Authentication failed. Please check the bot configuration."

\* C23: a client call that waits for a provider that never answers has a
\* timer of the client running, and has not waited longer than that timer
\* allows.
EveryCallHasDeadline ==
  (cpc = "waiting" /\ call.provider = "hangs") =>
    Deadline(call) # -1 /\ elapsed <= Deadline(call)

\* C24: a request on a thread whose Session names a sandbox that the provider
\* no longer has runs, and ends, on a sandbox that exists.
StaleSessionStartsFresh ==
  (req.stale /\ req.pc \in {"run", "done", "failed"}) => req.sprite \in sprites

\* C25: set creates the Session of its key with createdAt = updatedAt = now,
\* or replaces it keeping createdAt and setting updatedAt to now; it leaves
\* the Sessions of the other keys as they are and marks the store dirty; and
\* updatedAt >= createdAt in every Session, whatever the operation.
SetStep ==
  /\ \A k \in DOMAIN store'.sessions :
       store'.sessions[k].updatedAt >= store'.sessions[k].createdAt
  /\ (op'.name = "set" /\ now' = now) =>
       /\ dirty'
       /\ \E k \in SessionKeys :
            /\ DOMAIN store'.sessions = DOMAIN store.sessions \cup {k}
            /\ \A j \in DOMAIN store.sessions \ {k} : store'.sessions[j] = store.sessions[j]
            /\ store'.sessions[k].updatedAt = now
            /\ store'.sessions[k].createdAt =
                 IF k \in DOMAIN store.sessions THEN store.sessions[k].createdAt ELSE now

SetIsUpsert == [][SetStep]_vars

\* A Session was set again at a later time, while another key has a Session.
SetIsUpsertWitness ==
  /\ op.name = "set"
  /\ DOMAIN store.sessions = SessionKeys
  /\ \E k \in SessionKeys :
       /\ store.sessions[k].createdAt = 0 /\ store.sessions[k].updatedAt = 1
       /\ store.sessions[k].ampThreadId = "T-2"

\* C26: cleanup removes the Sessions with updatedAt before now - maxAgeDays
\* and no other, leaves the rest unchanged, and returns the number removed;
\* when it removed none nothing is written, and when it removed some the store
\* is saved in the same step (the file is the new store, unless the write
\* itself fails).
CleanupStep ==
  (op'.name = "cleanup" /\ now' = now) =>
    LET cutoff == now - op'.arg IN
    /\ DOMAIN store'.sessions =
         {k \in DOMAIN store.sessions : ~(store.sessions[k].updatedAt < cutoff)}
    /\ \A k \in DOMAIN store'.sessions : store'.sessions[k] = store.sessions[k]
    /\ op'.returned = Cardinality(DOMAIN store.sessions \ DOMAIN store'.sessions)
    /\ op'.returned = 0 => file' = file /\ dirty' = dirty /\ ~op'.wrote
    /\ op'.returned > 0 =>
         \/ op'.wrote /\ ~dirty' /\ file'.kind = "mapping"
              /\ DOMAIN file'.sessions = DOMAIN store'.sessions
         \/ ~op'.wrote /\ dirty' /\ file' = file

CleanupRemovesOld == [][CleanupStep]_vars

\* A cleanup removed one Session, kept the one that is exactly at the cutoff,
\* and wrote the file.
CleanupRemovesOldWitness ==
  /\ op.name = "cleanup" /\ op.returned = 1 /\ op.wrote
  /\ \E k \in DOMAIN store.sessions : store.sessions[k].updatedAt = now - op.arg
  /\ file.kind = "mapping" /\ DOMAIN file.sessions = DOMAIN store.sessions

\* C27: whenever the store has no unsaved change, loading the file gives the
\* store: the same keys and, for each, the same fields or absent fields.
SessionRoundTrip ==
  ~dirty =>
    /\ ~LoadFile(file).threw
    /\ DOMAIN LoadFile(file).store.sessions = DOMAIN store.sessions
    /\ \A k \in DOMAIN store.sessions :
         \A f \in {"ampThreadId", "spriteName", "userId", "createdAt", "updatedAt",
                   "lastSlackContextTs"} :
           LoadFile(file).store.sessions[k][f] = store.sessions[k][f]

\* A store with a context marker on one Session and no sandbox name on it, and
\* a second Session, was written.
SessionRoundTripWitness ==
  /\ ~dirty /\ op.wrote
  /\ DOMAIN store.sessions = SessionKeys
  /\ \E k \in SessionKeys :
       /\ store.sessions[k].lastSlackContextTs # Absent
       /\ store.sessions[k].spriteName = Absent

\* C29: at most one save timer is pending; a mutation does not write the file
\* and leaves a timer pending; and the write made when the timer fires is
\* the only one of its timer and holds the whole store.
CoalescedStep ==
  /\ saveTimers' <= 1
  /\ (op'.name \in {"set", "updateAmpThreadId", "updateLastSlackContextTs"} /\ now' = now) =>
       file' = file /\ saveTimers' = 1
  /\ (op'.name = "timer" /\ saveTimers' # saveTimers) =>
       /\ saveTimers' = 0
       /\ op'.wrote => dirty /\ file'.kind = "mapping" /\ ParseSessions(file') = store

CoalescedWrites == [][CoalescedStep]_vars

\* The first write of the file, made by the timer, holds two Sessions, one of
\* them with a context marker: at least three mutations in one write.
CoalescedWritesWitness ==
  /\ op.name = "timer" /\ op.wrote
  /\ DOMAIN file.sessions = SessionKeys
  /\ \E k \in SessionKeys : "lastSlackContextTs" \in DOMAIN file.sessions[k]
  /\ \A k \in SessionKeys : store.sessions[k].createdAt = 0 /\ store.sessions[k].updatedAt = 0
  /\ now = 0

\* C30: when the timer runs save(), the mapping stays as it is; a store that
\* is not dirty is not written; a dirty store is written and then no longer
\* dirty, or the write fails and then the file is unchanged and the store
\* still dirty; and a dirty store without a timer gets one from the next
\* mutation.
SaveStep ==
  /\ (op'.name = "timer" /\ saveTimers' # saveTimers) =>
       /\ store' = store
       /\ ~dirty => file' = file /\ ~op'.wrote /\ ~dirty'
       /\ dirty /\ op'.wrote => ~dirty' /\ file' # NoFile
       /\ dirty /\ ~op'.wrote => dirty' /\ file' = file
  /\ (dirty /\ saveTimers = 0 /\ store' # store /\ op'.name \notin {"cleanup", "load"}) =>
       dirty' /\ saveTimers' = 1

SaveFailureKeepsDirty == [][SaveStep]_vars

\* The timer's write failed: nothing on disk, the Session still in memory,
\* the store dirty and no timer pending.
SaveFailureKeepsDirtyWitness ==
  /\ op.name = "timer" /\ ~op.wrote
  /\ dirty /\ saveTimers = 0
  /\ file = NoFile /\ store # EmptyStore

\* C28: after load() on a file that is missing, unreadable, no JSON, or JSON
\* without a sessions mapping, the store is the empty mapping.
LoadStartsEmpty ==
  (op.name = "load" /\ file.kind # "mapping") => store = EmptyStore

\* C31: when the process stops during save(), a load() of the file that is
\* left gives the Sessions of the previous document or those of the new one.
CrashKeepsDocument ==
  [][(dirty /\ op'.name = "crash") =>
       LoadFile(file').store \in {LoadFile(file).store, ParseSessions(Stringify(store))}]_vars

\* C32: updateAmpThreadId and updateLastSlackContextTs on a key with a Session
\* change the named field and set updatedAt to now on that Session, keep its
\* other fields and the other Sessions, and mark the store dirty; on a key
\* without a Session they change neither the mapping, nor the dirty mark, nor
\* the timer, nor the file.
SessionFields ==
  {"ampThreadId", "spriteName", "userId", "createdAt", "updatedAt", "lastSlackContextTs"}

ChangesOnly(field, values) ==
  /\ dirty'
  /\ DOMAIN store'.sessions = DOMAIN store.sessions
  /\ \E k \in DOMAIN store.sessions :
       /\ \A j \in DOMAIN store.sessions \ {k} : store'.sessions[j] = store.sessions[j]
       /\ \A f \in SessionFields \ {field, "updatedAt"} :
            store'.sessions[k][f] = store.sessions[k][f]
       /\ store'.sessions[k][field] \in values
       /\ store'.sessions[k].updatedAt = now

PartialStep ==
  /\ (op'.name = "updateAmpThreadId" /\ now' = now) =>
       ChangesOnly("ampThreadId", AmpThreadIds)
  /\ (op'.name = "updateLastSlackContextTs" /\ now' = now) =>
       ChangesOnly("lastSlackContextTs", ContextTs)
  /\ (op'.name \in {"updateAmpThreadId: no session", "updateLastSlackContextTs: no session"}
        /\ now' = now) =>
       /\ DOMAIN store.sessions # SessionKeys
       /\ store' = store /\ dirty' = dirty /\ saveTimers' = saveTimers /\ file' = file

PartialMutators == [][PartialStep]_vars

\* A context marker was put, at a later time, on a Session that has a sandbox
\* name, while the other key has a Session.
PartialMutatorsWitness ==
  /\ op.name = "updateLastSlackContextTs"
  /\ DOMAIN store.sessions = SessionKeys
  /\ \E k \in SessionKeys :
       /\ store.sessions[k].lastSlackContextTs = "3.0"
       /\ store.sessions[k].spriteName = "jane-1"
       /\ store.sessions[k].createdAt = 0 /\ store.sessions[k].updatedAt = 1

\* C33: the text of a message that arrived while its thread was in flight is
\* handed to an agent execution: once the window that holds only such
\* messages has been flushed, its text has gone to a runAmp call.
QueuedTextReachesAgent ==
  \A w \in Events :
    (/\ sent[w] # <<>>
     /\ \A h \in Range(sent[w]) : hpc[h] = "fed"
     /\ delivered[w] # <<>>) => execs[w] > 0

\* C34: a handler that awaits its debounce promise is not blocked for ever:
\* the entry whose flush settles the promise is in the debouncer's map.
AwaitingHandlerHasEntry ==
  \A h \in Events :
    hpc[h] = "debounce" =>
      /\ DebounceKey(ev[h]) \in DOMAIN pending
      /\ pending[DebounceKey(ev[h])].win = hwin[h]

\* C35: while a caller waits in the queue no runner is ready and unlocked, so
\* that a caller who arrives finds no runner to take ahead of the queue.
QueueMeansNoneFree ==
  waitQueue # <<>> => \A r \in Slots : ~(runners[r].ready /\ ~runners[r].locked)

\* Two callers wait while one runner is ready and locked and the other slot
\* has become ready and gone to the caller that waited longest.
QueueMeansNoneFreeWitness ==
  /\ Len(waitQueue) >= 1
  /\ \A r \in Slots : runners[r].ready /\ runners[r].locked
  /\ \E c \in Callers : viaQueue[c] /\ pc[c] = "probe"

\* C36: an attempt of initRunner reuses the sandbox exactly when it found a
\* sandbox with a clean checkpoint and the restore of it succeeded, and the
\* runner's checkpointId is then the id of that checkpoint; an attempt that
\* returns without reusing has deleted the sandbox it found, if any, and
\* built a sandbox whose new checkpoint the runner holds; an attempt that
\* deleted or built did not reuse; and the runner is ready exactly once an
\* attempt has returned, with a checkpointId set.
SlotReuse ==
  LET s == slot.found
      e == slot.env
      r == slot.res
  IN  /\ slot.pc \in {"ready", "backoff"} =>
           /\ r.reused <=> (e.get /\ s.exists /\ e.list /\ s.ckpt # 0 /\ e.restore)
           /\ r.reused =>
                /\ slot.pc = "ready"
                /\ slot.checkpointId = s.ckpt
                /\ slot.sb = CleanSandbox(s.ckpt)
           /\ (slot.pc = "ready" /\ ~r.reused) =>
                /\ s.exists => r.deleted
                /\ r.built
                /\ slot.sb = CleanSandbox(slot.checkpointId)
           /\ (r.deleted \/ r.built) => ~r.reused
      /\ slot.ready <=> slot.pc = "ready"
      /\ slot.ready => slot.checkpointId # 0

\* The second attempt reused the sandbox, which a request had used, after a
\* first attempt whose listing of the checkpoints and whose delete failed.
SlotReuseWitness ==
  /\ slot.pc = "ready" /\ slot.res.reused
  /\ slot.attempt = 2
  /\ slot.found.dirty /\ ~slot.sb.dirty
  /\ slot.checkpointId = 1

\* C37: the sleep after the n-th failed attempt of a slot is 5000 ms for
\* n = 1 and twice the sleep before it, cut at 120000 ms: 5000, 10000, 20000,
\* 40000, 80000, then 120000 for every later attempt.
ExpectedDelays == <<5000, 10000, 20000, 40000, 80000, 120000>>

RetryDelays ==
  /\ Len(slot.delays) = IF slot.pc = "backoff" THEN slot.attempt ELSE slot.attempt - 1
  /\ \A n \in 1 .. Len(slot.delays) :
       /\ slot.delays[n] = IF n <= 6 THEN ExpectedDelays[n] ELSE 120000
       /\ slot.delays[n] <= 120000
       /\ n > 1 => /\ slot.delays[n] >= slot.delays[n - 1]
                   /\ slot.delays[n] \in {2 * slot.delays[n - 1], 120000}

\* The loop sleeps after its seventh failed attempt: the delay has been at
\* the cap twice.
RetryDelaysWitness ==
  /\ slot.pc = "backoff" /\ slot.attempt = 7
  /\ slot.delays[5] = 80000 /\ slot.delays[6] = 120000 /\ slot.delays[7] = 120000

\* C38: the list parsed from the tool records has one entry for each path
\* named by a painter tool_use or by an image item, and no two for one path;
\* the entry of a path holds the bytes of the first image item of that path
\* that carried data, and no data when none did; and each upload takes the
\* entry's data when it has some and the download from the sandbox otherwise.
PayloadsOf(filePath) ==
  {n \in DOMAIN artifacts.records :
     /\ artifacts.records[n].kind = "tool_result"
     /\ StripScheme(artifacts.records[n].path) = filePath
     /\ artifacts.records[n].data # ""}

NamedPaths ==
  {StripScheme(artifacts.records[n].path) : n \in
     {m \in DOMAIN artifacts.records :
        artifacts.records[m].kind = "tool_result" \/ artifacts.records[m].name = "painter"}}

OneEntryPerFile ==
  artifacts.pc = "upload" =>
    LET files == artifacts.files
        uploads == artifacts.uploads
    IN  /\ \A i, j \in DOMAIN files : files[i].path = files[j].path => i = j
        /\ {files[i].path : i \in DOMAIN files} = NamedPaths
        /\ \A i \in DOMAIN files :
             LET with == PayloadsOf(files[i].path) IN
             IF with = {}
               THEN files[i].data = NoBuffer
               ELSE \E n \in with :
                      /\ \A m \in with : n <= m
                      /\ files[i].data = FromBase64(artifacts.records[n].data)
        /\ \A i \in DOMAIN uploads :
             /\ uploads[i].filename = files[i].filename
             /\ IF PayloadsOf(files[i].path) # {}
                  THEN uploads[i].from = "data" /\ uploads[i].file = files[i].data
                  ELSE uploads[i].from = "sandbox"

\* A file named first by the painter's tool_use and then by two image items
\* with different data, the first of them under the file scheme, has one
\* entry and was uploaded from the first data.
OneEntryPerFileWitness ==
  /\ Len(artifacts.records) = 3
  /\ artifacts.records[1].kind = "tool_use"
  /\ artifacts.records[2].data = "QUJD" /\ Len(artifacts.records[2].path) = 2
  /\ artifacts.records[3].data = "REVG"
  /\ Len(artifacts.files) = 1
  /\ Len(artifacts.uploads) = 1 /\ artifacts.uploads[1].file = "ABC"

\* C39: the promise of exec is pending until the first of timeout, close and
\* error, and from then on it is what that event made it, whatever follows:
\* rejected with the timeout error, fulfilled with the output and exit code
\* collected when the connection closed, or rejected with the connection's
\* error.
ExecSettlesOnce ==
  LET f == wsExec.first
      p == wsExec.promise
  IN  /\ f.kind = "none" <=> p.state = "pending"
      /\ f.kind = "timeout" => p.state = "rejected" /\ p.reason = "Sprites exec timeout"
      /\ f.kind = "close" =>
           /\ p.state = "fulfilled"
           /\ p.stdout = f.stdout /\ p.stderr = f.stderr /\ p.exitCode = f.exitCode
      /\ f.kind = "error" => p.state = "rejected" /\ p.reason = "Sprites WebSocket error"
      /\ wsExec.resolved <=> p.state # "pending"

\* The timer fired first; then more output came, the connection failed and
\* closed.
ExecSettlesOnceWitness ==
  /\ wsExec.first.kind = "timeout"
  /\ wsExec.closed /\ wsExec.errored
  /\ wsExec.stdout # wsExec.first.stdout
  /\ wsExec.exitCode = 1
  /\ wsExec.promise.state = "rejected"

\* C40: whenever the store is dirty a save timer is pending (a save() that
\* runs does so within one step, so that between steps none is running).
DirtyHasTimer == dirty => saveTimers > 0

====
